---------------------------- MODULE Spec2Model ----------------------------
(***************************************************************************)
(* Model of the information-extraction and fusion pipeline:                *)
(*   pipeline/segmenter.py       Segmenter.split_segments                  *)
(*   pipeline/postprocessing.py  merge_entities, _deduplicate_precedents   *)
(*   pipeline/selectors.py       select_primary_date and friends           *)
(*   pipeline/party_extractor.py extract_parties                           *)
(*   pipeline/ner_predictor.py   post_process_ner                          *)
(*   app.py                      extract_full_data, extract_info           *)
(*                                                                         *)
(* Texts are sequences of one-character strings, so that trimming, case    *)
(* folding, length tests and similarity are computed and not assumed.      *)
(***************************************************************************)
EXTENDS Integers, Sequences, FiniteSets, TLC

VARIABLES
    pc,             \* control point of the component under analysis
    \* ---- Segmenter.split_segments (segmenter.py) ----
    source,         \* the constructor's argument: a text or None
    lines,          \* self.text.splitlines(), each line by its class
    pos,            \* number of lines the for-loop has consumed
    state,          \* "header" | "body" | "order"
    header_lines,   \* positions of the lines appended to header_lines
    body_lines,     \* positions appended to body_lines, 0 for a kept ""
    order_lines,    \* positions appended to order_lines
    segments,       \* the returned dict, or NoSegments before the return
    \* ---- merge_entities (postprocessing.py) ----
    bert_ents_list,     \* argument: <<label, raw text>> pairs of the tagger
    spacy_regex_ents,   \* argument: <<label, text>> pairs of the rule engine
    hashseed,           \* the process's string hashing: the order in which a
                        \* set of these strings is iterated
    final_output,       \* the returned dict, or NoOutput before the return
    \* ---- select_primary_date (selectors.py) ----
    dates,          \* the candidate date strings
    header_text,    \* the optional header text, None when not supplied
    now,            \* datetime.now(), as <<year, month, day>>
    primary_date,   \* the value select_primary_date returned
    \* ---- select_primary_case_number, select_primary_court (selectors.py) ----
    case_numbers,           \* the candidate case numbers
    courts,                 \* the candidate court names
    primary_case_number,    \* what select_primary_case_number returned
    primary_court,          \* what select_primary_court returned, or ValueError
    \* ---- extract_parties (party_extractor.py) ----
    party_header,   \* the header text, by what each strategy's expressions find
    extracted_parties,  \* the returned (appellants, respondents)
    \* ---- post_process_ner (ner_predictor.py) ----
    ner_text,       \* the text: its words and what the fallback expressions find
    raw_preds,      \* the tagger's token predictions
    ner_output,     \* the returned dict
    \* ---- the extractors of one document (extract_full_data's callees) ----
    doc_text,       \* the text, by what each extractor's expressions find in it
    extracted,      \* what each extractor returned
    \* ---- extract_info (app.py) ----
    fs,             \* the uploads folder: its directory and the files' contents
    requests,       \* the requests being handled
    \* ---- extract_full_data (app.py) ----
    spans,          \* what the tagger (per zone) and the rule engine find
    document,       \* what the other extractors return for the document
    structured,     \* the returned record, or NoRecord before the return
    rerun           \* a second run on the same text and tagger predictions:
                    \* its pc, hashseed, now, final_output and structured

segVars == <<source, lines, pos, state, header_lines, body_lines, order_lines, segments>>

mergeVars == <<bert_ents_list, spacy_regex_ents, hashseed, final_output>>

dateVars == <<dates, header_text, now, primary_date>>

recordVars == <<spans, document, structured, rerun>>

selVars == <<case_numbers, courts, primary_case_number, primary_court>>

partyVars == <<party_header, extracted_parties>>

nerVars == <<ner_text, raw_preds, ner_output>>

extractVars == <<doc_text, extracted>>

uploadVars == <<fs, requests>>

otherVars == <<selVars, partyVars, nerVars, extractVars, uploadVars>>

vars == <<pc, segVars, mergeVars, dateVars, recordVars, otherVars>>

-----------------------------------------------------------------------------
(* Generic helpers on sequences.                                           *)

Range(s) == {s[k] : k \in 1..Len(s)}

SeqsUpTo(S, n) == UNION {[1..k -> S] : k \in 0..n}

RECURSIVE SelectSeq2(_, _)
\* the elements of s that are in keep, in the order of s
SelectSeq2(s, keep) ==
    IF s = <<>> THEN <<>>
    ELSE IF Head(s) \in keep THEN <<Head(s)>> \o SelectSeq2(Tail(s), keep)
         ELSE SelectSeq2(Tail(s), keep)

Orderings(S) ==
    {f \in [1..Cardinality(S) -> S] : \A x \in S : \E k \in DOMAIN f : f[k] = x}

Count(s, x) == Cardinality({k \in 1..Len(s) : s[k] = x})

-----------------------------------------------------------------------------
(***************************************************************************)
(* SEGMENTER                                                               *)
(*                                                                         *)
(* A line is represented by its class: what each of the regular            *)
(* expressions of split_segments answers on it.  The classes and a line    *)
(* of each:                                                                *)
(*   blank     ""  or whitespace only                                      *)
(*   caption   "IN THE SUPREME COURT OF INDIA"   header-shaped             *)
(*   name      "Ram Kumar"                       no cue at all             *)
(*   prose     "The appellant was convicted"     verb cue, not a caption   *)
(*   facts     "Background"                      body-opening marker       *)
(*   order     "ORDER" / "Held: ..."             order-start marker        *)
(*   judgment  "Judgment"                        order-start AND body-open *)
(*   ordered   "Ordered accordingly"             begins with ORDER, but    *)
(*                                               no word boundary after it *)
(*   orderedp  "Ordered that the appeal is allowed"  the same, plus a verb *)
(***************************************************************************)
LineKinds == {"blank", "caption", "name", "prose", "facts", "order",
              "judgment", "ordered", "orderedp"}

MaxLines == 4

HeaderRunaway == 50

NoSegments == [header |-> <<-1>>, body |-> <<-1>>, order |-> <<-1>>]

\* not stripped
IsBlank(k) == k = "blank"

\* _looks_like_order_start
LooksLikeOrderStart(k) == k \in {"order", "judgment"}

\* the body-opening regular expression of split_segments
BodyOpening(k) == k \in {"facts", "judgment"}

\* _is_header_line
IsHeaderLine(k) == k \in {"caption", "order", "judgment"}

\* the reporting-verb regular expression of split_segments
HasVerbCue(k) == k \in {"prose", "orderedp"}

\* the post-pass expression (?:\n|^)(Held:|ORDER|O R D E R:|ORDER:) at a line start
EmbeddedMarker(k) == k \in {"order", "ordered", "orderedp"}

\* str.strip() of "\n".join(xs): the lines are stripped already, so only
\* leading and trailing "" entries (0) go
RECURSIVE StripLeft(_)
StripLeft(z) == IF z # <<>> /\ Head(z) = 0 THEN StripLeft(Tail(z)) ELSE z

RECURSIVE StripRight(_)
StripRight(z) ==
    IF z # <<>> /\ z[Len(z)] = 0 THEN StripRight(SubSeq(z, 1, Len(z) - 1)) ELSE z

StripZone(z) == StripRight(StripLeft(z))

\* the mutation of FirstMarker: a line with a reporting verb is a marker too
FirstMarkerOrVerb(ls, z) ==
    LET hits == {k \in 1..Len(z) :
                    z[k] # 0 /\ (EmbeddedMarker(ls[z[k]]) \/ HasVerbCue(ls[z[k]]))}
    IN IF hits = {} THEN 0 ELSE CHOOSE k \in hits : \A j \in hits : k <= j

\* index in z of the first line the post-pass expression matches, 0 if none
FirstMarker(ls, z) ==
    LET hits == {k \in 1..Len(z) : z[k] # 0 /\ EmbeddedMarker(ls[z[k]])}
    IN IF hits = {} THEN 0 ELSE CHOOSE k \in hits : \A j \in hits : k <= j

\* the mutation of ResplitAfter: the second half starts after the marker line
ResplitAfterSkipsMarker(z, m) == StripZone(SubSeq(z, m + 1, Len(z)))

\* the mutation of ResplitBefore: the first half runs up to the marker line
ResplitBeforeWithMarker(z, m) == StripZone(SubSeq(z, 1, m))

\* body[:m.start()].strip() and body[m.start():].strip()
ResplitBefore(z, m) == StripZone(SubSeq(z, 1, m - 1))

ResplitAfter(z, m) == StripZone(SubSeq(z, m, Len(z)))

\* the post-cleaning and the post-pass of split_segments
PostPass(ls, h, b, o) ==
    LET header == StripZone(h)
        body   == StripZone(b)
        order  == StripZone(o)
        m      == FirstMarker(ls, body)
    IN IF order = <<>> /\ body # <<>> /\ m # 0
       THEN [header |-> header, body |-> ResplitBefore(body, m),
             order |-> ResplitAfter(body, m)]
       ELSE [header |-> header, body |-> body, order |-> order]

\* the mutation of ScanStep for C14: a line after the order that is no
\* order-start line goes back to body
ScanStepLeavesOrder(k, p, st, h, b, o) ==
    IF IsBlank(k) THEN <<st, h, b, o>>
    ELSE IF LooksLikeOrderStart(k) THEN <<"order", h, b, Append(o, p)>>
    ELSE IF st = "header" /\ ~BodyOpening(k) /\ ~HasVerbCue(k)
         THEN <<st, Append(h, p), b, o>>
    ELSE <<"body", h, Append(b, p), o>>

\* the mutation of ScanStep for C20: in the header state the body-opening
\* test comes before the order-start test
ScanStepBodyFirst(k, p, st, h, b, o) ==
    IF IsBlank(k) THEN <<st, h, b, o>>
    ELSE IF st = "header" /\ BodyOpening(k) THEN <<"body", h, Append(b, p), o>>
    ELSE IF LooksLikeOrderStart(k) \/ st = "order" THEN <<"order", h, b, Append(o, p)>>
    ELSE IF st = "header" /\ ~HasVerbCue(k) THEN <<st, Append(h, p), b, o>>
    ELSE <<"body", h, Append(b, p), o>>

\* the mutation of ScanStep for C21: no test of the length of the header
ScanStepNoRunaway(k, p, st, h, b, o) ==
    IF IsBlank(k)
    THEN IF st = "body" /\ b # <<>> /\ b[Len(b)] # 0
         THEN <<st, h, Append(b, 0), o>>
         ELSE <<st, h, b, o>>
    ELSE IF LooksLikeOrderStart(k) \/ st = "order" THEN <<"order", h, b, Append(o, p)>>
    ELSE IF st = "header" /\ (BodyOpening(k) \/ (~IsHeaderLine(k) /\ HasVerbCue(k)))
         THEN <<"body", h, Append(b, p), o>>
    ELSE IF st = "header" THEN <<st, Append(h, p), b, o>>
    ELSE <<st, h, Append(b, p), o>>

\* the state the for-loop body leaves after line number p of class k
\* (state, header_lines, body_lines, order_lines)
ScanStep(k, p, st, h, b, o) ==
    IF IsBlank(k)
    THEN IF st = "body" /\ b # <<>> /\ b[Len(b)] # 0
         THEN <<st, h, Append(b, 0), o>>
         ELSE <<st, h, b, o>>
    ELSE LET st1 == IF LooksLikeOrderStart(k) THEN "order" ELSE st
         IN IF st1 = "header"
               /\ (\/ BodyOpening(k)
                   \/ Len(h) > HeaderRunaway
                   \/ (~IsHeaderLine(k) /\ HasVerbCue(k)))
            THEN <<"body", h, Append(b, p), o>>
            ELSE IF st1 = "header" THEN <<st1, Append(h, p), b, o>>
            ELSE IF st1 = "body" THEN <<st1, h, Append(b, p), o>>
            ELSE <<st1, h, b, Append(o, p)>>

NoOutput == [none |-> <<>>]

\* the variables of the components that are not running
MergeIdle ==
    /\ bert_ents_list = <<>>
    /\ spacy_regex_ents = <<>>
    /\ hashseed = <<>>
    /\ final_output = NoOutput

\* Python's None, an element no text has
None == <<"None">>

\* _try_parse_date returning None
NoDate == <<0, 0, 0>>

DateIdle ==
    /\ dates = <<>>
    /\ header_text = None
    /\ primary_date = None

ClockIdle == now = NoDate

NoDocument == [none |-> <<>>]

NoRecord == [none |-> <<>>]

NoRun == [none |-> <<>>]

RecordIdle ==
    /\ spans = <<>>
    /\ document = NoDocument
    /\ structured = NoRecord
    /\ rerun = NoRun

\* a call that has not been made
NotCalled == <<"NotCalled">>

SelIdle ==
    /\ case_numbers = <<>>
    /\ courts = <<>>
    /\ primary_case_number = NotCalled
    /\ primary_court = NotCalled

NoHeader == [none |-> <<>>]

PartyIdle ==
    /\ party_header = NoHeader
    /\ extracted_parties = NotCalled

NoText == [none |-> <<>>]

NerIdle ==
    /\ ner_text = NoText
    /\ raw_preds = <<>>
    /\ ner_output = NoOutput

ExtractIdle ==
    /\ doc_text = NoText
    /\ extracted = [k \in {} |-> <<>>]

NoFiles == [none |-> <<>>]

UploadIdle ==
    /\ fs = NoFiles
    /\ requests = <<>>

OtherIdle == SelIdle /\ PartyIdle /\ NerIdle /\ ExtractIdle /\ UploadIdle

SegIdle ==
    /\ source = <<>>
    /\ lines = <<>>
    /\ pos = 0
    /\ state = "header"
    /\ header_lines = <<>>
    /\ body_lines = <<>>
    /\ order_lines = <<>>
    /\ segments = NoSegments

\* Segmenter.__init__: self.text, a text being the sequence of its lines
SegmenterText(src) == IF src = None THEN <<>> ELSE src

SegInit ==
    /\ pc = "scan"
    /\ source \in SeqsUpTo(LineKinds, MaxLines) \cup {None}
    /\ lines = SegmenterText(source)
    /\ pos = 0
    /\ state = "header"
    /\ header_lines = <<>>
    /\ body_lines = <<>>
    /\ order_lines = <<>>
    /\ segments = NoSegments
    /\ MergeIdle
    /\ DateIdle
    /\ ClockIdle
    /\ RecordIdle
    /\ OtherIdle

\* one iteration of `for i, raw in enumerate(lines)`
ScanLine ==
    /\ pc = "scan"
    /\ pos < Len(lines)
    /\ LET r == ScanStep(lines[pos + 1], pos + 1, state,
                         header_lines, body_lines, order_lines)
       IN /\ state' = r[1]
          /\ header_lines' = r[2]
          /\ body_lines' = r[3]
          /\ order_lines' = r[4]
    /\ pos' = pos + 1
    /\ UNCHANGED <<pc, source, lines, segments, mergeVars, dateVars, recordVars, otherVars>>

\* the code after the loop: join, strip, post-pass, return
FinishSegments ==
    /\ pc = "scan"
    /\ pos = Len(lines)
    /\ segments' = PostPass(lines, header_lines, body_lines, order_lines)
    /\ pc' = "done"
    /\ UNCHANGED <<source, lines, pos, state, header_lines, body_lines, order_lines,
                   mergeVars, dateVars, recordVars, otherVars>>

SegNext == ScanLine \/ FinishSegments

SpecSeg == SegInit /\ [][SegNext]_vars

\* the longest run of header lines a long text starts with
MaxHeaderRun == 53

\* the lines that follow the run
MaxTail == 2

\* n header lines: captions and names in turn
HeaderRun(n) == [k \in 1..n |-> IF k % 2 = 1 THEN "caption" ELSE "name"]

\* split_segments on the texts that start with a run of about
\* HeaderRunaway header lines
LongSegInit ==
    /\ pc = "scan"
    /\ \E n \in (HeaderRunaway - 1)..MaxHeaderRun :
          \E tail \in SeqsUpTo(LineKinds, MaxTail) : source = HeaderRun(n) \o tail
    /\ lines = SegmenterText(source)
    /\ pos = 0
    /\ state = "header"
    /\ header_lines = <<>>
    /\ body_lines = <<>>
    /\ order_lines = <<>>
    /\ segments = NoSegments
    /\ MergeIdle
    /\ DateIdle
    /\ ClockIdle
    /\ RecordIdle
    /\ OtherIdle

SpecSegLong == LongSegInit /\ [][SegNext]_vars

-----------------------------------------------------------------------------
(* C1: every non-blank input line is in exactly one of header, body and    *)
(* order of the returned segments, exactly once, and nothing else is; the  *)
(* post-pass that re-splits body into body and order keeps this.           *)
NonBlankPositions == {p \in 1..Len(lines) : ~IsBlank(lines[p])}

ZoneCount(p) ==
    Count(segments.header, p) + Count(segments.body, p) + Count(segments.order, p)

SegmentsPartitionLines ==
    pc = "done" =>
        /\ \A p \in NonBlankPositions : ZoneCount(p) = 1
        /\ (Range(segments.header) \cup Range(segments.body)
               \cup Range(segments.order)) \subseteq (NonBlankPositions \cup {0})

\* a run whose post-pass fired with all three zones filled
SegmentsPartitionWitness ==
    /\ pc = "done"
    /\ order_lines = <<>>
    /\ segments.header # <<>>
    /\ segments.body # <<>>
    /\ segments.order # <<>>
    /\ Len(segments.order) >= 2

-----------------------------------------------------------------------------
(* C14: the segmenter only moves forward, header to body to order: no     *)
(* line is assigned to header after a line assigned to body or order, and  *)
(* none to body after a line assigned to order; so header, body and order  *)
(* are consecutive ranges of the input, in that order, in the buffers of   *)
(* the loop and in the returned segments.                                  *)
Increasing(z) ==
    \A i, j \in 1..Len(z) : i < j /\ z[i] # 0 /\ z[j] # 0 => z[i] < z[j]

ZonesInOrder(h, b, o) == Increasing(h \o b \o o)

StateRank == IF state = "header" THEN 1 ELSE IF state = "body" THEN 2 ELSE 3

SegmenterMovesForward ==
    /\ ZonesInOrder(header_lines, body_lines, order_lines)
    /\ (state = "header" => body_lines = <<>> /\ order_lines = <<>>)
    /\ (state = "body" => order_lines = <<>>)
    /\ (pc = "done" =>
           ZonesInOrder(segments.header, segments.body, segments.order))

\* all three zones filled by the loop, and a header-shaped line after the
\* order-start line
SegmenterMovesForwardWitness ==
    /\ pc = "done"
    /\ segments.header # <<>>
    /\ segments.body # <<>>
    /\ Len(order_lines) = 2
    /\ lines[order_lines[2]] = "caption"

-----------------------------------------------------------------------------
(* C15: split_segments always returns (a None source gives three empty     *)
(* zones); and when no line matches an order-start marker and no line of   *)
(* the body begins with an embedded Held:/ORDER marker, order is empty and *)
(* every non-blank line from the first body line on is in body.            *)
NoZones == [header |-> <<>>, body |-> <<>>, order |-> <<>>]

NoMarkerAnywhere ==
    /\ \A p \in 1..Len(lines) : ~LooksLikeOrderStart(lines[p])
    /\ \A k \in 1..Len(body_lines) :
          body_lines[k] # 0 => ~EmbeddedMarker(lines[body_lines[k]])

NoMarkerNoOrder ==
    /\ pc \in {"scan", "done"}
    /\ (pc = "done" /\ source \in {None, <<>>} => segments = NoZones)
    /\ (pc = "done" /\ NoMarkerAnywhere =>
           /\ segments.order = <<>>
           /\ \A p \in NonBlankPositions :
                 body_lines # <<>> /\ p >= body_lines[1] =>
                     Count(segments.body, p) = 1)

\* a run without markers in the body, the header holding a line that begins
\* with ORDER, and a body of two lines or more
NoMarkerNoOrderWitness ==
    /\ pc = "done"
    /\ NoMarkerAnywhere
    /\ header_lines # <<>>
    /\ lines[header_lines[1]] = "ordered"
    /\ Len(segments.body) >= 2
    /\ segments.order = <<>>

\* a None source, returned as three empty zones
NoneSourceWitness == pc = "done" /\ source = None /\ segments = NoZones

-----------------------------------------------------------------------------
-----------------------------------------------------------------------------
(* C20: the order-start test comes first for every non-blank line: a line  *)
(* matching an order-start marker is placed in order whatever the state,   *)
(* while still in the header and when it also matches a body-opening       *)
(* marker (a line starting with "Judgment") included.                      *)
OrderStartLinesInOrder ==
    /\ \A p \in 1..pos : LooksLikeOrderStart(lines[p]) => Count(order_lines, p) = 1
    /\ (pc = "done" =>
           \A p \in 1..Len(lines) :
               LooksLikeOrderStart(lines[p]) => Count(segments.order, p) = 1)

\* a "Judgment" line met in the header state, returned as the first line of
\* order, the body empty
OrderStartFirstWitness ==
    /\ pc = "done"
    /\ segments.header # <<>>
    /\ segments.body = <<>>
    /\ segments.order # <<>>
    /\ lines[segments.order[1]] = "judgment"

-----------------------------------------------------------------------------
(***************************************************************************)
(* TEXT                                                                    *)
(*                                                                         *)
(* A text is a sequence of characters; the operators below are the str     *)
(* and re operations the fusion code applies.                              *)
(***************************************************************************)
\* "ABCDEFGHIJKLMNOPQRSTUVWXYZ"
UpperChars == <<"A", "B", "C", "D", "E", "F", "G", "H", "I", "J", "K", "L",
    "M", "N", "O", "P", "Q", "R", "S", "T", "U", "V", "W", "X", "Y", "Z">>

\* "abcdefghijklmnopqrstuvwxyz"
LowerChars == <<"a", "b", "c", "d", "e", "f", "g", "h", "i", "j", "k", "l",
    "m", "n", "o", "p", "q", "r", "s", "t", "u", "v", "w", "x", "y", "z">>

Whitespace == {" ", "\t", "\n"}

Digits == {"0", "1", "2", "3", "4", "5", "6", "7", "8", "9"}

IsUpperChar(c) == \E k \in 1..Len(UpperChars) : UpperChars[k] = c

LowerChar(c) ==
    IF IsUpperChar(c)
    THEN LowerChars[CHOOSE k \in 1..Len(UpperChars) : UpperChars[k] = c]
    ELSE c

\* str.lower
Lower(s) == [k \in 1..Len(s) |-> LowerChar(s[k])]

RECURSIVE LStrip(_, _)
LStrip(s, cs) == IF s # <<>> /\ Head(s) \in cs THEN LStrip(Tail(s), cs) ELSE s

RECURSIVE RStrip(_, _)
RStrip(s, cs) ==
    IF s # <<>> /\ s[Len(s)] \in cs THEN RStrip(SubSeq(s, 1, Len(s) - 1), cs) ELSE s

\* str.strip(chars)
StripChars(s, cs) == RStrip(LStrip(s, cs), cs)

\* str.strip()
Strip(s) == StripChars(s, Whitespace)

RECURSIVE RunLen(_, _, _)
\* the length of the longest run of characters of cs that starts at s[i]
RunLen(s, i, cs) ==
    IF i > Len(s) \/ s[i] \notin cs THEN 0 ELSE 1 + RunLen(s, i + 1, cs)

\* whether needle occurs in hay (the `in` of two strings)
Contains(hay, needle) ==
    \E i \in 1..(Len(hay) - Len(needle) + 1) :
        SubSeq(hay, i, i + Len(needle) - 1) = needle

RECURSIVE CollapseWs(_)
\* re.sub(r'\s+', ' ', s)
CollapseWs(s) ==
    IF s = <<>> THEN <<>>
    ELSE IF Head(s) \in Whitespace
         THEN <<" ">> \o CollapseWs(LStrip(Tail(s), Whitespace))
         ELSE <<Head(s)>> \o CollapseWs(Tail(s))

\* _clean_whitespace
CleanWhitespace(s) == StripChars(CollapseWs(s), {" ", ",", ";", ":", "\n", "\t"})

EndsWith(s, suf) ==
    /\ Len(s) >= Len(suf)
    /\ SubSeq(s, Len(s) - Len(suf) + 1, Len(s)) = suf

\* len(s.split())
WordCount(s) ==
    Cardinality({k \in 1..Len(s) :
        /\ s[k] \notin Whitespace
        /\ (k = 1 \/ s[k - 1] \in Whitespace)})

-----------------------------------------------------------------------------
(***************************************************************************)
(* FUSION: merge_entities                                                  *)
(***************************************************************************)
\* "[header]"
TagHeader == <<"[", "h", "e", "a", "d", "e", "r", "]">>

\* "[body]"
TagBody == <<"[", "b", "o", "d", "y", "]">>

\* label.upper() of the labels of the candidates
LabelUpper(label) == IF label = "court" THEN "COURT" ELSE label

\* _label_key
LabelKey(label) ==
    LET u == LabelUpper(label)
    IN CASE u = "CASE_NUMBER" -> "case_number"
         [] u = "COURT" -> "court"
         [] u = "DATE" -> "date"
         [] u = "PRECEDENT" -> "precedent"
         [] u = "PRECEDENTS" -> "precedent"
         [] u = "PROVISION" -> "provision"
         [] u = "GPE" -> "gpe"
         [] u = "ORGANIZATION" -> "organization"
         [] u = "CASE_NAME" -> "case_name"

ExpectedKeys == {"case_number", "court", "date", "coram", "petitioner",
                 "respondent", "lawyer", "precedent", "provision", "statute",
                 "gpe", "organization"}

ExtraKeys == {"extra_case_numbers", "extra_courts", "extra_dates"}

\* re.match(r'^(.*?)(?:\s*\[(header|body)\])?\s*$', raw): the value and the
\* provenance of a tagger candidate
ParseProvenance(raw) ==
    LET r    == RStrip(raw, Whitespace)
        tag  == IF EndsWith(r, TagHeader) THEN "header"
                ELSE IF EndsWith(r, TagBody) THEN "body" ELSE ""
        body == IF tag = "header" THEN SubSeq(r, 1, Len(r) - Len(TagHeader))
                ELSE IF tag = "body" THEN SubSeq(r, 1, Len(r) - Len(TagBody))
                ELSE r
        g1   == RStrip(body, Whitespace)
    IN IF "\n" \notin Range(g1)
       THEN [val |-> CleanWhitespace(g1), prov |-> tag]
       ELSE [val |-> CleanWhitespace(raw), prov |-> ""]

RECURSIVE CollectBert(_)
\* step 1: the (key, value, provenance) items of the tagger candidates
CollectBert(bert) ==
    IF bert = <<>> THEN <<>>
    ELSE LET e == Head(bert)
             p == ParseProvenance(e[2])
         IN (IF p.val = <<>> THEN <<>>
             ELSE <<[key |-> LabelKey(e[1]), val |-> p.val,
                     prov |-> IF p.prov = "" THEN "bert" ELSE p.prov]>>)
            \o CollectBert(Tail(bert))

RECURSIVE CollectSpacy(_)
\* step 2: the items of the rule candidates
CollectSpacy(spacy) ==
    IF spacy = <<>> THEN <<>>
    ELSE LET e == Head(spacy)
         IN (IF e[2] = <<>> THEN <<>>
             ELSE <<[key |-> LabelKey(e[1]), val |-> CleanWhitespace(e[2]),
                     prov |-> "spacy"]>>)
            \o CollectSpacy(Tail(spacy))

\* accum: all items, in the order they were appended
Accum(bert, spacy) == CollectBert(bert) \o CollectSpacy(spacy)

RECURSIVE ItemsOfKey(_, _, _)
\* accum[key], each item with its position in accum[key]
ItemsOfKey(acc, key, n) ==
    IF acc = <<>> THEN <<>>
    ELSE IF Head(acc).key = key
         THEN <<[val |-> Head(acc).val, prov |-> Head(acc).prov, idx |-> n]>>
              \o ItemsOfKey(Tail(acc), key, n + 1)
         ELSE ItemsOfKey(Tail(acc), key, n)

RECURSIVE FilterProv(_, _)
FilterProv(items, bucket) ==
    IF items = <<>> THEN <<>>
    ELSE (IF bucket[Head(items).prov] THEN <<Head(items)>> ELSE <<>>)
         \o FilterProv(Tail(items), bucket)

\* the three tests of step 3 on prov_l
HeaderBucket(prov) == prov = "header"

BertBucket(prov) == prov = "bert"

\* header_vals + bert_vals + spacy_vals
Combined(items) ==
    FilterProv(items, [p \in {"header", "body", "bert", "spacy"} |-> HeaderBucket(p)])
    \o FilterProv(items, [p \in {"header", "body", "bert", "spacy"} |->
                            ~HeaderBucket(p) /\ BertBucket(p)])
    \o FilterProv(items, [p \in {"header", "body", "bert", "spacy"} |->
                            ~HeaderBucket(p) /\ ~BertBucket(p)])

-----------------------------------------------------------------------------
(* difflib.SequenceMatcher(None, a, b).ratio() > 0.85, for texts shorter   *)
(* than the 200 characters from which difflib starts to discard popular    *)
(* characters.                                                             *)

RECURSIVE CommonLen(_, _, _, _, _, _)
\* the length of the longest common run starting at a[i] and b[j]
CommonLen(a, i, ahi, b, j, bhi) ==
    IF i > ahi \/ j > bhi \/ a[i] # b[j] THEN 0
    ELSE 1 + CommonLen(a, i + 1, ahi, b, j + 1, bhi)

SetMax(S) == CHOOSE x \in S : \A y \in S : y <= x

SetMin(S) == CHOOSE x \in S : \A y \in S : x <= y

\* find_longest_match: the longest block, the earliest in a, then in b
FindLongestMatch(a, alo, ahi, b, blo, bhi) ==
    LET K  == [p \in (alo..ahi) \X (blo..bhi) |->
                  CommonLen(a, p[1], ahi, b, p[2], bhi)]
        k  == SetMax({K[p] : p \in DOMAIN K})
        i  == SetMin({p[1] : p \in {q \in DOMAIN K : K[q] = k}})
        j  == SetMin({p[2] : p \in {q \in DOMAIN K : K[q] = k /\ q[1] = i}})
    IN <<i, j, k>>

RECURSIVE MatchTotal(_, _, _, _, _, _)
\* the sum of the sizes of get_matching_blocks
MatchTotal(a, alo, ahi, b, blo, bhi) ==
    IF alo > ahi \/ blo > bhi THEN 0
    ELSE LET m == FindLongestMatch(a, alo, ahi, b, blo, bhi)
         IN IF m[3] = 0 THEN 0
            ELSE m[3] + MatchTotal(a, alo, m[1] - 1, b, blo, m[2] - 1)
                      + MatchTotal(a, m[1] + m[3], ahi, b, m[2] + m[3], bhi)

SimilarityPercent == 85

MinBaseLen == 10

MinPrecedentLen == 15

MaxPrecedents == 15

\* ratio() > 0.85, with ratio = 2.0 * matches / (len(a) + len(b))
RatioAbove(a, b) ==
    LET total == Len(a) + Len(b)
    IN IF total = 0 THEN TRUE
       ELSE 200 * MatchTotal(a, 1, Len(a), b, 1, Len(b)) > SimilarityPercent * total

\* the texts of the candidates the fusion is run on
\* "Agra"
CourtAgra == <<"A", "g", "r", "a">>

\* "AGRA"
CourtAgraUpper == <<"A", "G", "R", "A">>

\* "Delhi"
CourtDelhi == <<"D", "e", "l", "h", "i">>

\* "Agra ."
CourtAgraDot == <<"A", "g", "r", "a", " ", ".">>

\* "Ram Kumar v. State of UP"
PrecRam == <<"R", "a", "m", " ", "K", "u", "m", "a", "r", " ", "v", ".",
    " ", "S", "t", "a", "t", "e", " ", "o", "f", " ", "U", "P">>

\* "Ram Kumar v. State of MP"
PrecRamMP == <<"R", "a", "m", " ", "K", "u", "m", "a", "r", " ", "v", ".",
    " ", "S", "t", "a", "t", "e", " ", "o", "f", " ", "M", "P">>

\* "Mohan Lal Sharma v. Union of India"
PrecMohan == <<"M", "o", "h", "a", "n", " ", "L", "a", "l", " ", "S", "h",
    "a", "r", "m", "a", " ", "v", ".", " ", "U", "n", "i", "o", "n", " ",
    "o", "f", " ", "I", "n", "d", "i", "a">>

\* "A v. B"
PrecShort == <<"A", " ", "v", ".", " ", "B">>

\* " (2023) 5 SCC 100"
CitationSuffix == <<" ", "(", "2", "0", "2", "3", ")", " ", "5", " ", "S",
    "C", "C", " ", "1", "0", "0">>

\* index of the first match of \(\d{4}\) in s, 0 if none
YearParenAt(s) ==
    LET hits == {k \in 1..(Len(s) - 5) :
                    /\ s[k] = "("
                    /\ \A d \in 1..4 : s[k + d] \in Digits
                    /\ s[k + 5] = ")"}
    IN IF hits = {} THEN 0 ELSE SetMin(hits)

\* index of the whitespace before the first \s+(SCC|SCR|AIR), 0 if none
ReporterAt(s) ==
    LET hits == {k \in 1..(Len(s) - 3) :
                    /\ s[k] \in Whitespace
                    /\ Lower(SubSeq(s, k + 1, k + 3)) \in
                          {<<"s", "c", "c">>, <<"s", "c", "r">>, <<"a", "i", "r">>}}
    IN IF hits = {} THEN 0 ELSE SetMin(hits)

\* the mutation of BaseName: the citation suffix is not cut off
BaseNameKeepsCitation(prec) == Strip(prec)

\* base: re.sub(r'\s*\(\d{4}\).*$', '', prec).strip(), then
\* re.sub(r'\s+(SCC|SCR|AIR).*$', '', base, flags=re.I).strip()
BaseName(prec) ==
    LET y  == YearParenAt(prec)
        b1 == Strip(IF y = 0 THEN prec ELSE SubSeq(prec, 1, y - 1))
        r  == ReporterAt(b1)
    IN Strip(IF r = 0 THEN b1 ELSE SubSeq(b1, 1, r - 1))

RECURSIVE Distinct(_)
\* the values of a list, each once, in first-occurrence order
Distinct(vs) ==
    IF vs = <<>> THEN <<>>
    ELSE LET rest == Distinct(SubSeq(vs, 1, Len(vs) - 1))
         IN IF vs[Len(vs)] \in Range(rest) THEN rest ELSE Append(rest, vs[Len(vs)])

\* iteration of set(vs): the order the process's string hashing gives
SetIteration(seed, vs) == SelectSeq2(seed, Range(vs))

RECURSIVE InsertByLen(_, _)
\* insert v after every element at least as long (a stable descending sort)
InsertByLen(sorted, v) ==
    IF sorted = <<>> THEN <<v>>
    ELSE IF Len(Head(sorted)) >= Len(v)
         THEN <<Head(sorted)>> \o InsertByLen(Tail(sorted), v)
         ELSE <<v>> \o sorted

RECURSIVE SortedByLenDesc(_)
\* sorted(xs, key=len, reverse=True)
SortedByLenDesc(xs) ==
    IF xs = <<>> THEN <<>>
    ELSE InsertByLen(SortedByLenDesc(SubSeq(xs, 1, Len(xs) - 1)), xs[Len(xs)])

KnownPrecedents ==
    {PrecRam, PrecRamMP, PrecMohan, PrecShort,
     PrecRam \o CitationSuffix, PrecShort \o CitationSuffix}

KnownBases == {Lower(BaseName(p)) : p \in KnownPrecedents}

KnownRatioAbove == [p \in KnownBases \X KnownBases |-> RatioAbove(p[1], p[2])]

\* SequenceMatcher(None, base_lower, seen).ratio() > 0.85; the answers for
\* the base names of KnownPrecedents are computed once
Similar(a, b) ==
    IF <<a, b>> \in DOMAIN KnownRatioAbove THEN KnownRatioAbove[<<a, b>>]
    ELSE RatioAbove(a, b)

RECURSIVE DedupLoop(_, _, _)
\* the loop of _deduplicate_precedents over precedents_sorted
DedupLoop(todo, unique, seen_base_names) ==
    IF todo = <<>> THEN unique
    ELSE LET prec == Head(todo)
             base == BaseName(prec)
             base_lower == Lower(base)
         IN IF Len(base) < MinBaseLen
            THEN DedupLoop(Tail(todo), unique, seen_base_names)
            ELSE IF \E seen \in seen_base_names : Similar(base_lower, seen)
            THEN DedupLoop(Tail(todo), unique, seen_base_names)
            ELSE DedupLoop(Tail(todo), Append(unique, prec),
                           seen_base_names \cup {base_lower})

\* xs[:n]
FirstN(xs, n) == SubSeq(xs, 1, IF Len(xs) < n THEN Len(xs) ELSE n)

\* _deduplicate_precedents
DeduplicatePrecedents(precedents, seed) ==
    IF precedents = <<>> THEN <<>>
    ELSE FirstN(DedupLoop(SortedByLenDesc(SetIteration(seed, precedents)),
                          <<>>, {}),
                MaxPrecedents)

\* the first item of a list that carries value v
FirstItemOf(items, v) ==
    items[SetMin({k \in 1..Len(items) : items[k].val = v})]

\* the mutation of SeenBefore: nothing counts as seen
SeenBeforeNever(k_lower, v2, cleaned) == FALSE

\* k_lower in seen
SeenBefore(k_lower, v2, cleaned) ==
    \E k \in 1..Len(cleaned) : Lower(cleaned[k].val) = k_lower

\* v2 = v.strip().strip('.,;:')
FinalStrip(v) == StripChars(Strip(v), {".", ",", ";", ":"})

\* re.match(r'^[A-Z\s]{3,200}$', v2) and len(v2.split()) > 2
LooksLikeAllCapsPhrase(v2) ==
    /\ Len(v2) >= 3
    /\ \A k \in 1..Len(v2) : IsUpperChar(v2[k]) \/ v2[k] \in Whitespace
    /\ WordCount(v2) > 2

\* whether the loop of step 3 skips the value (the keys of the modelled labels)
Rejected(key, v2) ==
    \/ key = "organization" /\ LooksLikeAllCapsPhrase(v2)
    \/ key = "precedent" /\ Len(v2) < MinPrecedentLen

RECURSIVE CleanLoop(_, _, _)
\* the loop of step 3 over combined; each kept value with the item it came from
CleanLoop(key, todo, cleaned) ==
    IF todo = <<>> THEN cleaned
    ELSE LET it == Head(todo)
             v2 == FinalStrip(it.val)
         IN IF it.val = <<>> \/ Rejected(key, v2)
               \/ SeenBefore(Lower(v2), v2, cleaned)
            THEN CleanLoop(key, Tail(todo), cleaned)
            ELSE CleanLoop(key, Tail(todo),
                           Append(cleaned, [val |-> v2, prov |-> it.prov,
                                            idx |-> it.idx]))

Values(items) == [k \in 1..Len(items) |-> items[k].val]

\* the items of combined that carry the values kept, in the order of kept
ItemsOfValues(combined, kept) ==
    [k \in 1..Len(kept) |-> FirstItemOf(combined, kept[k])]

\* combined = _deduplicate_precedents(combined)
DedupCombined(combined, seed) ==
    ItemsOfValues(combined, DeduplicatePrecedents(Values(combined), seed))

\* combined, after _deduplicate_precedents for the precedent key
CombinedOf(key, acc, seed) ==
    IF key = "precedent"
    THEN DedupCombined(Combined(ItemsOfKey(acc, key, 1)), seed)
    ELSE Combined(ItemsOfKey(acc, key, 1))

\* cleaned, for one key: the kept values with their items
CleanedItems(key, acc, seed) == CleanLoop(key, CombinedOf(key, acc, seed), <<>>)

\* x[1:] if len(x) > 1 else []
ExtraOf(xs) == IF Len(xs) > 1 THEN Tail(xs) ELSE <<>>

\* step 5: final with the compatibility extras
WithExtras(final) ==
    [key \in ExpectedKeys \cup ExtraKeys |->
        CASE key = "extra_case_numbers" -> ExtraOf(final["case_number"])
          [] key = "extra_courts" -> ExtraOf(final["court"])
          [] key = "extra_dates" -> ExtraOf(final["date"])
          [] OTHER -> final[key]]

\* the index after a match of \s+v[.]?s?[.]?\s+ (re.I) at s[i], 0 if there
\* is none
InferSepEnd(s, i) ==
    LET w1   == RunLen(s, i, Whitespace)
        v    == i + w1
        dot1 == IF v + 1 <= Len(s) /\ s[v + 1] = "." THEN 1 ELSE 0
        s1   == IF v + 1 + dot1 <= Len(s) /\ s[v + 1 + dot1] \in {"S", "s"} THEN 1 ELSE 0
        dot2 == IF v + 1 + dot1 + s1 <= Len(s) /\ s[v + 1 + dot1 + s1] = "." THEN 1 ELSE 0
        w2   == RunLen(s, v + 1 + dot1 + s1 + dot2, Whitespace)
    IN IF w1 >= 1 /\ v <= Len(s) /\ s[v] \in {"V", "v"} /\ w2 >= 1
       THEN v + 1 + dot1 + s1 + dot2 + w2 ELSE 0

RECURSIVE InferSplitFrom(_, _, _)
\* re.split(r'\s+v[.]?s?[.]?\s+', case_name, flags=re.I): the part that
\* starts at s[from] and the parts after it, scanning at s[i]
InferSplitFrom(s, from, i) ==
    IF i > Len(s) THEN <<SubSeq(s, from, Len(s))>>
    ELSE IF InferSepEnd(s, i) > 0
         THEN <<SubSeq(s, from, i - 1)>>
              \o InferSplitFrom(s, InferSepEnd(s, i), InferSepEnd(s, i))
         ELSE InferSplitFrom(s, from, i + 1)

\* pet, resp of _infer_parties_from_case_name, from the parts of the split
InferredFrom(parts) ==
    IF Len(parts) = 2 THEN <<Strip(parts[1]), Strip(parts[2])>> ELSE <<None, None>>

\* _infer_parties_from_case_name
InferPartiesFromCaseName(case_name) ==
    IF case_name = <<>> \/ ~Contains(Lower(case_name), <<" ", "v">>)
    THEN <<None, None>>
    ELSE InferredFrom(InferSplitFrom(case_name, 1, 1))

\* final[side] after `if pet: final["petitioner"].append(pet)`
WithInferred(names, inferred) ==
    IF inferred # None /\ inferred # <<>> THEN Append(names, inferred) ELSE names

\* step 6: final with the parties inferred from cname; case_names is
\* final["case_name"], present tells whether final has the key
WithInferredParties(final, case_names, present, inferred) ==
    [key \in DOMAIN final \cup (IF present THEN {"case_name"} ELSE {}) |->
        IF key = "case_name" THEN case_names
        ELSE IF final["petitioner"] # <<>> \/ final["respondent"] # <<>> THEN final[key]
        ELSE IF key = "petitioner" THEN WithInferred(final[key], inferred[1])
        ELSE IF key = "respondent" THEN WithInferred(final[key], inferred[2])
        ELSE final[key]]

\* cname of step 6
CnameOf(case_names) == IF case_names # <<>> THEN case_names[1] ELSE <<>>

\* steps 3 to 6 over accum
MergeAccum(acc, seed, case_names) ==
    WithInferredParties(
        WithExtras([key \in ExpectedKeys |-> Values(CleanedItems(key, acc, seed))]),
        case_names, ItemsOfKey(acc, "case_name", 1) # <<>>,
        InferPartiesFromCaseName(CnameOf(case_names)))

\* merge_entities
MergeEntities(bert, spacy, seed) ==
    MergeAccum(Accum(bert, spacy), seed,
               Values(CleanedItems("case_name", Accum(bert, spacy), seed)))

-----------------------------------------------------------------------------
(* The candidates the fusion is run on.                                    *)

PrecedentTexts == KnownPrecedents \ {PrecRamMP}

Provenances == {"header", "body", "bert", "spacy"}

\* a candidate: label, text, and where it comes from
Candidates ==
    ({"COURT"} \X {CourtAgra} \X Provenances)
    \cup ({"COURT"} \X {CourtAgraUpper, CourtAgraDot, CourtDelhi} \X {"body", "spacy"})
    \cup ({"PRECEDENT"} \X PrecedentTexts \X {"header", "spacy"})

MaxCandidates == 2

\* the text the caller hands over for a tagger candidate: extract_full_data
\* appends " [header]" or " [body]"; "bert" is a candidate handed over bare
RawOf(c) ==
    IF c[3] = "header" THEN c[2] \o <<" ">> \o TagHeader
    ELSE IF c[3] = "body" THEN c[2] \o <<" ">> \o TagBody
    ELSE c[2]

RECURSIVE BertOf(_)
BertOf(cs) ==
    IF cs = <<>> THEN <<>>
    ELSE (IF Head(cs)[3] # "spacy" THEN <<<<Head(cs)[1], RawOf(Head(cs))>>>> ELSE <<>>)
         \o BertOf(Tail(cs))

RECURSIVE SpacyOf(_)
SpacyOf(cs) ==
    IF cs = <<>> THEN <<>>
    ELSE (IF Head(cs)[3] = "spacy" THEN <<<<Head(cs)[1], Head(cs)[2]>>>> ELSE <<>>)
         \o SpacyOf(Tail(cs))

\* the strings that _deduplicate_precedents puts in a set
PrecedentValues(bert, spacy) ==
    {it.val : it \in Range(ItemsOfKey(Accum(bert, spacy), "precedent", 1))}

MergeInit ==
    /\ pc = "start"
    /\ \E cs \in SeqsUpTo(Candidates, MaxCandidates) :
          /\ bert_ents_list = BertOf(cs)
          /\ spacy_regex_ents = SpacyOf(cs)
    /\ hashseed \in Orderings(PrecedentValues(bert_ents_list, spacy_regex_ents))
    /\ final_output = NoOutput
    /\ SegIdle
    /\ DateIdle
    /\ ClockIdle
    /\ RecordIdle
    /\ OtherIdle

\* final_output = merge_entities(bert_ents_list, spacy_regex_ents)
CallMergeEntities ==
    /\ pc = "start"
    /\ final_output' = MergeEntities(bert_ents_list, spacy_regex_ents, hashseed)
    /\ pc' = "merged"
    /\ UNCHANGED <<bert_ents_list, spacy_regex_ents, hashseed, segVars, dateVars,
                   recordVars, otherVars>>

MergeNext == CallMergeEntities

SpecMerge == MergeInit /\ [][MergeNext]_vars

\* "Ram Kumar" and "State of UP"
CaseLeft == SubSeq(PrecRam, 1, 9)

CaseRight == SubSeq(PrecRam, 14, Len(PrecRam))

\* "Ram Kumar versus State of UP"
CaseVersus == CaseLeft \o <<" ", "v", "e", "r", "s", "u", "s", " ">> \o CaseRight

\* "Ram Kumar vs. State of UP"
CaseVs == CaseLeft \o <<" ", "v", "s", ".", " ">> \o CaseRight

\* "Ram Kumar and State of UP"
CaseAnd == CaseLeft \o <<" ", "a", "n", "d", " ">> \o CaseRight

\* the candidates of a text whose case name was tagged
CaseNameCandidates ==
    ({"CASE_NAME"} \X {PrecRam, CaseVersus, CaseVs, CaseAnd} \X {"header", "spacy"})
    \cup ({"COURT"} \X {CourtAgra} \X {"header", "spacy"})

\* merge_entities on these candidates
CaseNameInit ==
    /\ pc = "start"
    /\ \E cs \in SeqsUpTo(CaseNameCandidates, MaxCandidates) :
          /\ bert_ents_list = BertOf(cs)
          /\ spacy_regex_ents = SpacyOf(cs)
    /\ hashseed \in Orderings(PrecedentValues(bert_ents_list, spacy_regex_ents))
    /\ final_output = NoOutput
    /\ SegIdle
    /\ DateIdle
    /\ ClockIdle
    /\ RecordIdle
    /\ OtherIdle

SpecCaseName == CaseNameInit /\ [][MergeNext]_vars

(* C26: when the fusion leaves no petitioner and no respondent and a case  *)
(* name with a "v." or "versus" separator was resolved, the petitioner     *)
(* side is the text left of the separator and the respondent side the text *)
(* right of it.                                                            *)
SeparatorOf(name) ==
    IF name \in {PrecRam, CaseVs, CaseVersus} THEN Len(name) - Len(CaseLeft) - Len(CaseRight)
    ELSE 0

PartiesInferredFromCaseName ==
    pc = "merged" /\ "case_name" \in DOMAIN final_output
        /\ SeparatorOf(final_output["case_name"][1]) > 0 =>
            /\ final_output["petitioner"] = <<CaseLeft>>
            /\ final_output["respondent"] = <<CaseRight>>

\* the same for the separators "v." and "vs."
PartiesInferredFromShortSeparator ==
    pc = "merged" /\ "case_name" \in DOMAIN final_output
        /\ final_output["case_name"][1] # CaseVersus => PartiesInferredFromCaseName

-----------------------------------------------------------------------------
(* Properties of merge_entities.                                           *)

\* accum, and for a key the kept values with the items they came from
AccumNow == Accum(bert_ents_list, spacy_regex_ents)

Kept(key) == CleanedItems(key, AccumNow, hashseed)

\* the provenance groups of the fusion: header, model ([body] or bare), rule
ProvGroup(prov) ==
    CASE prov = "header" -> 1
      [] prov \in {"body", "bert"} -> 2
      [] prov = "spacy" -> 3

\* priority order: by provenance group, then by discovery
Before(a, b) ==
    \/ ProvGroup(a.prov) < ProvGroup(b.prov)
    \/ ProvGroup(a.prov) = ProvGroup(b.prov) /\ a.idx < b.idx

(* C4: for every label other than precedent the returned list is ordered   *)
(* by provenance group (header, then model, then rule), and inside a group *)
(* by discovery order.                                                     *)
ProvenanceOrderKept ==
    pc = "merged" =>
        \A key \in ExpectedKeys \ {"precedent"} :
            /\ final_output[key] = Values(Kept(key))
            /\ \A i, j \in 1..Len(Kept(key)) :
                  i < j => Before(Kept(key)[i], Kept(key)[j])

(* C5: in the precedent list a header-provenance precedent stands before   *)
(* every rule-provenance precedent of different text.                      *)
HeaderPrecedentFirst ==
    pc = "merged" =>
        /\ final_output["precedent"] = Values(Kept("precedent"))
        /\ \A i, j \in 1..Len(Kept("precedent")) :
              /\ Kept("precedent")[i].prov = "header"
              /\ Kept("precedent")[j].prov = "spacy"
              /\ Kept("precedent")[i].val # Kept("precedent")[j].val
              => i < j

(* C6: no list holds two entries that are equal without regard to case,    *)
(* and of the candidates that clean to the same text the kept one is the   *)
(* first in priority order.                                                *)
CaseInsensitiveFirstKept ==
    pc = "merged" =>
        \A key \in ExpectedKeys :
            LET items == ItemsOfKey(AccumNow, key, 1)
                kept  == Kept(key)
            IN /\ final_output[key] = Values(kept)
               /\ \A i, j \in 1..Len(kept) :
                     i # j => Lower(kept[i].val) # Lower(kept[j].val)
               /\ \A i \in 1..Len(kept) : \A n \in 1..Len(items) :
                     /\ Lower(FinalStrip(items[n].val)) = Lower(kept[i].val)
                     /\ items[n].idx # kept[i].idx
                     => Before(kept[i], items[n])

(* C7: every value of every returned list is a non-empty string without    *)
(* leading or trailing whitespace.                                         *)
ValuesNonEmptyTrimmed ==
    pc = "merged" =>
        \A key \in DOMAIN final_output :
            \A n \in 1..Len(final_output[key]) :
                LET v == final_output[key][n]
                IN /\ v # <<>>
                   /\ v[1] \notin Whitespace
                   /\ v[Len(v)] \notin Whitespace

(* C8: merging the duplicated input, merge_entities(B + B, S + S), returns *)
(* the mapping, list order included, that merge_entities(B, S) returned.   *)
MergeIdempotent ==
    pc = "merged" =>
        MergeEntities(bert_ents_list \o bert_ents_list,
                      spacy_regex_ents \o spacy_regex_ents, hashseed)
            = final_output

\* a merge of a tagger candidate and a rule candidate that kept a court and
\* a precedent
MergeIdempotentWitness ==
    /\ pc = "merged"
    /\ bert_ents_list # <<>>
    /\ spacy_regex_ents # <<>>
    /\ final_output["court"] # <<>>
    /\ final_output["precedent"] # <<>>

\* the input is the two precedent candidates P and P + " (2023) 5 SCC 100"
IsSuffixPair(P) ==
    \E p1, p2 \in Provenances :
        LET a == <<"PRECEDENT", P, p1>>
            b == <<"PRECEDENT", P \o CitationSuffix, p2>>
        IN \E cs \in {<<a, b>>, <<b, a>>} :
              /\ bert_ents_list = BertOf(cs)
              /\ spacy_regex_ents = SpacyOf(cs)

\* P is as the cleaning leaves a text: single spaces, no space , ; : at
\* either end, no full stop in front, no provenance tag at the end
IsCleanText(P) ==
    /\ CleanWhitespace(P) = P
    /\ FinalStrip(P) = P
    /\ ParseProvenance(P).prov = ""

-----------------------------------------------------------------------------
(***************************************************************************)
(* SELECTORS: _try_parse_date and select_primary_date                      *)
(***************************************************************************)
\* "0123456789"
DigitChars == <<"0", "1", "2", "3", "4", "5", "6", "7", "8", "9">>

Letters == Range(UpperChars) \cup Range(LowerChars)

\* \w
WordChars == Letters \cup Digits \cup {"_"}

DigitValue(c) == (CHOOSE n \in 1..10 : DigitChars[n] = c) - 1

RECURSIVE NumberOf(_)
\* int(s) of a string of digits
NumberOf(s) ==
    IF s = <<>> THEN 0
    ELSE 10 * NumberOf(SubSeq(s, 1, Len(s) - 1)) + DigitValue(s[Len(s)])

AllDigits(s) == \A k \in 1..Len(s) : s[k] \in Digits

RECURSIVE SplitOn(_, _)
\* the fields of s around each single character of seps
SplitOn(s, seps) ==
    LET at == {j \in 1..Len(s) : s[j] \in seps}
    IN IF at = {} THEN <<s>>
       ELSE <<SubSeq(s, 1, SetMin(at) - 1)>>
            \o SplitOn(SubSeq(s, SetMin(at) + 1, Len(s)), seps)

RECURSIVE Words(_)
\* s.split(): the fields of s around runs of whitespace
Words(s) ==
    LET t  == LStrip(s, Whitespace)
        at == {j \in 1..Len(t) : t[j] \in Whitespace}
    IN IF t = <<>> THEN <<>>
       ELSE IF at = {} THEN <<t>>
       ELSE <<SubSeq(t, 1, SetMin(at) - 1)>>
            \o Words(SubSeq(t, SetMin(at) + 1, Len(t)))

\* the month names of the C locale, lowered; %b is the first three letters
MonthNames ==
    <<<<"j", "a", "n", "u", "a", "r", "y">>,
      <<"f", "e", "b", "r", "u", "a", "r", "y">>,
      <<"m", "a", "r", "c", "h">>,
      <<"a", "p", "r", "i", "l">>,
      <<"m", "a", "y">>,
      <<"j", "u", "n", "e">>,
      <<"j", "u", "l", "y">>,
      <<"a", "u", "g", "u", "s", "t">>,
      <<"s", "e", "p", "t", "e", "m", "b", "e", "r">>,
      <<"o", "c", "t", "o", "b", "e", "r">>,
      <<"n", "o", "v", "e", "m", "b", "e", "r">>,
      <<"d", "e", "c", "e", "m", "b", "e", "r">>>>

IsLeap(y) == (y % 4 = 0 /\ y % 100 # 0) \/ y % 400 = 0

DaysInMonth(y, m) ==
    IF m = 2 THEN (IF IsLeap(y) THEN 29 ELSE 28)
    ELSE IF m \in {4, 6, 9, 11} THEN 30 ELSE 31

\* %d: 3[0-1]|[1-2]\d|0[1-9]|[1-9]; 0 when the field does not match
DayField(f) ==
    IF Len(f) \in {1, 2} /\ AllDigits(f) /\ NumberOf(f) \in 1..31
    THEN NumberOf(f) ELSE 0

\* %m: 1[0-2]|0[1-9]|[1-9]; 0 when the field does not match
MonthField(f) ==
    IF Len(f) \in {1, 2} /\ AllDigits(f) /\ NumberOf(f) \in 1..12
    THEN NumberOf(f) ELSE 0

\* %Y is four digits; %y is two digits, 00-68 in 2000 and 69-99 in 1900;
\* 0 when the field does not match
YearField(f, ylen) ==
    IF Len(f) # ylen \/ ~AllDigits(f) THEN 0
    ELSE IF ylen = 4 THEN NumberOf(f)
    ELSE IF NumberOf(f) < 69 THEN 2000 + NumberOf(f) ELSE 1900 + NumberOf(f)

\* %B (full = TRUE) or %b, without regard to case; 0 when no month matches
MonthByName(f, full) ==
    LET hits == {k \in 1..12 :
                    Lower(f) = (IF full THEN MonthNames[k]
                                ELSE SubSeq(MonthNames[k], 1, 3))}
    IN IF hits = {} THEN 0 ELSE SetMin(hits)

\* datetime(y, m, d), NoDate where strptime raises
MakeDate(y, m, d) ==
    IF y >= 1 /\ m >= 1 /\ d >= 1 /\ d <= DaysInMonth(y, m)
    THEN <<y, m, d>> ELSE NoDate

\* strptime(s, "%d<sep>%m<sep>%Y") or ...%y; a blank in a format is \s+
StrptimeNumeric(s, sep, ylen) ==
    LET f == IF sep = " " THEN Words(s) ELSE SplitOn(s, {sep})
    IN IF Len(f) # 3 THEN NoDate
       ELSE MakeDate(YearField(f[3], ylen), MonthField(f[2]), DayField(f[1]))

\* strptime(s, "%d %B %Y"), "%d %b %Y", and the two with a comma after the month
StrptimeNamed(s, full, comma) ==
    LET f == Words(s)
    IN IF Len(f) # 3 THEN NoDate
       ELSE LET name == IF ~comma THEN f[2]
                        ELSE IF f[2] # <<>> /\ f[2][Len(f[2])] = ","
                        THEN SubSeq(f[2], 1, Len(f[2]) - 1)
                        ELSE <<>>
            IN MakeDate(YearField(f[3], 4), MonthByName(name, full), DayField(f[1]))

RECURSIVE RemoveOrdinalsFrom(_, _)
\* re.sub(r'(\d)(st|nd|rd|th)\b', r'\1', s, flags=re.I), from s[k] on
RemoveOrdinalsFrom(s, k) ==
    IF k > Len(s) THEN <<>>
    ELSE IF /\ k >= 2
            /\ s[k - 1] \in Digits
            /\ k + 1 <= Len(s)
            /\ Lower(SubSeq(s, k, k + 1)) \in
                  {<<"s", "t">>, <<"n", "d">>, <<"r", "d">>, <<"t", "h">>}
            /\ (k + 2 > Len(s) \/ s[k + 2] \notin WordChars)
         THEN RemoveOrdinalsFrom(s, k + 2)
         ELSE <<s[k]>> \o RemoveOrdinalsFrom(s, k + 1)

\* whether (\d{1,2})\s+([A-Za-z]{3,9})\s+(\d{4}) matches at s[i] with n digits
FallbackMatchesAt(s, i, n) ==
    LET w1 == RunLen(s, i + n, Whitespace)
        a  == i + n + w1
        l  == RunLen(s, a, Letters)
        w2 == RunLen(s, a + l, Whitespace)
        y  == a + l + w2
    IN /\ i + n - 1 <= Len(s)
       /\ AllDigits(SubSeq(s, i, i + n - 1))
       /\ w1 >= 1
       /\ l \in 3..9
       /\ w2 >= 1
       /\ y + 3 <= Len(s)
       /\ AllDigits(SubSeq(s, y, y + 3))

\* the groups d, mon, y of the match at s[i]
FallbackGroups(s, i, n) ==
    LET w1 == RunLen(s, i + n, Whitespace)
        a  == i + n + w1
        l  == RunLen(s, a, Letters)
        y  == a + l + RunLen(s, a + l, Whitespace)
    IN <<SubSeq(s, i, i + n - 1), SubSeq(s, a, a + l - 1), SubSeq(s, y, y + 3)>>

\* the first of two parses that gives a date
OrElse(dt, later) == IF dt # NoDate THEN dt ELSE later

\* the groups of the fallback match parsed with "%d %B %Y", then "%d %b %Y"
ParseGroups(g) ==
    OrElse(MakeDate(YearField(g[3], 4), MonthByName(g[2], TRUE), DayField(g[1])),
           MakeDate(YearField(g[3], 4), MonthByName(g[2], FALSE), DayField(g[1])))

\* the re.search fallback of _try_parse_date: the leftmost match, parsed with
\* "%d %B %Y" and then with "%d %b %Y"
FallbackParse(s) ==
    LET hits == {i \in 1..Len(s) : \E n \in {1, 2} : FallbackMatchesAt(s, i, n)}
    IN IF hits = {} THEN NoDate
       ELSE ParseGroups(FallbackGroups(
                s, SetMin(hits),
                IF FallbackMatchesAt(s, SetMin(hits), 2) THEN 2 ELSE 1))

\* fmts: "%d %B %Y", "%d %b %Y", "%d.%m.%Y", "%d/%m/%Y", "%d-%m-%Y",
\* "%d %B, %Y", "%d %b, %Y", "%d %m %Y", "%d.%m.%y", "%d/%m/%y", "%d-%m-%y"
Formats ==
    <<[named |-> TRUE, full |-> TRUE, comma |-> FALSE],
      [named |-> TRUE, full |-> FALSE, comma |-> FALSE],
      [named |-> FALSE, sep |-> ".", ylen |-> 4],
      [named |-> FALSE, sep |-> "/", ylen |-> 4],
      [named |-> FALSE, sep |-> "-", ylen |-> 4],
      [named |-> TRUE, full |-> TRUE, comma |-> TRUE],
      [named |-> TRUE, full |-> FALSE, comma |-> TRUE],
      [named |-> FALSE, sep |-> " ", ylen |-> 4],
      [named |-> FALSE, sep |-> ".", ylen |-> 2],
      [named |-> FALSE, sep |-> "/", ylen |-> 2],
      [named |-> FALSE, sep |-> "-", ylen |-> 2]>>

\* datetime.strptime(s, f), NoDate where it raises
Strptime(s, f) ==
    IF f.named THEN StrptimeNamed(s, f.full, f.comma)
    ELSE StrptimeNumeric(s, f.sep, f.ylen)

RECURSIVE TryFormats(_, _)
\* the loop over fmts from fmts[k] on, then the fallback
TryFormats(s, k) ==
    IF k > Len(Formats) THEN FallbackParse(s)
    ELSE OrElse(Strptime(s, Formats[k]), TryFormats(s, k + 1))

\* _try_parse_date: the first of fmts that parses, else the fallback
TryParseDate(s0) ==
    IF Strip(s0) = <<>> THEN NoDate
    ELSE TryFormats(RemoveOrdinalsFrom(Strip(s0), 1), 1)

\* dt <= now: a parsed date is a midnight, now is a moment of its day
DateLeq(a, b) ==
    \/ a[1] < b[1]
    \/ a[1] = b[1] /\ a[2] < b[2]
    \/ a[1] = b[1] /\ a[2] = b[2] /\ a[3] <= b[3]

RECURSIVE DateCandidates(_, _)
\* candidates: the stripped, non-empty dates, the first of each lowered form
DateCandidates(ds, candidates) ==
    IF ds = <<>> THEN candidates
    ELSE LET d2 == Strip(Head(ds))
         IN IF d2 = <<>>
               \/ \E k \in 1..Len(candidates) : Lower(candidates[k]) = Lower(d2)
            THEN DateCandidates(Tail(ds), candidates)
            ELSE DateCandidates(Tail(ds), Append(candidates, d2))

\* each candidate with what _try_parse_date makes of it
ParsedDates(candidates) ==
    [k \in 1..Len(candidates) |-> <<candidates[k], TryParseDate(candidates[k])>>]

\* whether a parsed candidate goes into valid: `if dt and dt <= now`
IsValidDate(p, today) == p[2] # NoDate /\ DateLeq(p[2], today)

\* valid: the (d, dt) pairs of the candidates that parse to a date not after now
ValidDates(candidates, today) ==
    SelectSeq(ParsedDates(candidates), LAMBDA p : IsValidDate(p, today))

\* max(valid, key=lambda x: x[1])[0]: the first of the pairs with the latest
\* date
LatestOf(valid) ==
    valid[SetMin({k \in 1..Len(valid) :
                     \A j \in 1..Len(valid) : DateLeq(valid[j][2], valid[k][2])})][1]

\* the end of select_primary_date, after the header match
LatestOrFirst(candidates, valid) ==
    IF valid # <<>> THEN LatestOf(valid)
    ELSE IF candidates # <<>> THEN candidates[1]
    ELSE None

\* the positions of the candidates whose lowered text occurs in the lowered header
HeaderMatch(candidates, header) ==
    {k \in 1..Len(candidates) : Contains(Lower(header), Lower(candidates[k]))}

\* select_primary_date on the candidates
SelectAmong(candidates, header, today) ==
    IF header # None /\ header # <<>> /\ HeaderMatch(candidates, header) # {}
    THEN candidates[SetMin(HeaderMatch(candidates, header))]
    ELSE LatestOrFirst(candidates, ValidDates(candidates, today))

\* select_primary_date
SelectPrimaryDate(ds, header, today) ==
    IF ds = <<>> THEN None
    ELSE SelectAmong(DateCandidates(ds, <<>>), header, today)

\* "01-01-2099"
DateFuture == <<"0", "1", "-", "0", "1", "-", "2", "0", "9", "9">>

\* "12 March 2023"
DateMarch == <<"1", "2", " ", "M", "a", "r", "c", "h", " ", "2", "0", "2",
    "3">>

\* "garbage"
DateGarbage == <<"g", "a", "r", "b", "a", "g", "e">>

\* " "
DateBlank == <<" ">>

\* "1st Jan 2020"
DateOrdinal == <<"1", "s", "t", " ", "J", "a", "n", " ", "2", "0", "2", "0">>

\* "31-02-2020"
DateNoSuchDay == <<"3", "1", "-", "0", "2", "-", "2", "0", "2", "0">>

\* "05.11.26"
DateShortYear == <<"0", "5", ".", "1", "1", ".", "2", "6">>

\* "Dated: 01-01-2099"
HeaderDated == <<"D", "a", "t", "e", "d", ":", " ", "0", "1", "-", "0", "1",
    "-", "2", "0", "9", "9">>

DateTexts ==
    {DateFuture, DateMarch, DateGarbage, DateBlank, DateOrdinal, DateNoSuchDay,
     DateShortYear}

HeaderTexts == {None, HeaderDated}

\* the days the process may run on
Nows == {<<2024, 1, 1>>, <<2026, 11, 5>>}

MaxDates == 2

DateInit ==
    /\ pc = "start"
    /\ dates \in SeqsUpTo(DateTexts, MaxDates)
    /\ header_text \in HeaderTexts
    /\ now \in Nows
    /\ primary_date = None
    /\ SegIdle
    /\ MergeIdle
    /\ RecordIdle
    /\ OtherIdle

\* primary_date = select_primary_date(dates, header_text)
CallSelectPrimaryDate ==
    /\ pc = "start"
    /\ primary_date' = SelectPrimaryDate(dates, header_text, now)
    /\ pc' = "selected"
    /\ UNCHANGED <<dates, header_text, now, segVars, mergeVars, recordVars, otherVars>>

DateNext == CallSelectPrimaryDate

SpecDate == DateInit /\ [][DateNext]_vars

(* C10: with no header text supplied, select_primary_date never returns a  *)
(* candidate that parses to a date later than the current processing date, *)
(* for any non-empty candidate list.                                       *)
NoFutureDateReturned ==
    pc = "selected" /\ header_text = None /\ dates # <<>> =>
        \/ primary_date = None
        \/ TryParseDate(primary_date) = NoDate
        \/ DateLeq(TryParseDate(primary_date), now)

-----------------------------------------------------------------------------
(***************************************************************************)
(* SELECTORS: case number, court and case name                             *)
(***************************************************************************)
RECURSIVE CaseNumberCandidates(_, _)
\* cleaned: the stripped case numbers, the first of each key
CaseNumberCandidates(cs, cleaned) ==
    IF cs = <<>> THEN cleaned
    ELSE LET c2 == Strip(Head(cs))
         IN IF \E k \in 1..Len(cleaned) :
                   Lower(CollapseWs(cleaned[k])) = Lower(CollapseWs(c2))
            THEN CaseNumberCandidates(Tail(cs), cleaned)
            ELSE CaseNumberCandidates(Tail(cs), Append(cleaned, c2))

\* priorities
Priorities ==
    <<<<"a", "p", "p", "e", "a", "l">>,
      <<"c", "r", "l">>,
      <<"c", "r", "l", ".", "o", ".", "p">>,
      <<"w", ".", "p", ".">>,
      <<"c", ".", "a", ".">>,
      <<"c", ".", "c", ".">>,
      <<"c", "r", "i", "m", "e", " ", "n", "o">>,
      <<"r", "c", "c">>,
      <<"c", "a", "s", "e", " ", "n", "o">>,
      <<"c", "i", "v", "i", "l", " ", "a", "p", "p", "e", "a", "l">>,
      <<"c", "i", "v", "i", "l", " ", "a", "p">>>>

\* select_primary_case_number
SelectPrimaryCaseNumber(cs) ==
    IF cs = <<>> THEN None
    ELSE LET cleaned == CaseNumberCandidates(cs, <<>>)
             hit(p) == {k \in 1..Len(cleaned) :
                           Contains(Lower(cleaned[k]), Priorities[p])}
             ps == {p \in 1..Len(Priorities) : hit(p) # {}}
             longest == {k \in 1..Len(cleaned) :
                            \A j \in 1..Len(cleaned) :
                                Len(cleaned[j]) <= Len(cleaned[k])}
         IN IF ps # {} THEN cleaned[SetMin(hit(SetMin(ps)))]
            ELSE cleaned[SetMin(longest)]

RECURSIVE CourtCandidates(_, _)
\* unique: the non-empty courts, whitespace normalised, the first of each key
CourtCandidates(cs, unique) ==
    IF cs = <<>> THEN unique
    ELSE LET c2 == CollapseWs(Strip(Head(cs)))
         IN IF Head(cs) = <<>>
               \/ \E k \in 1..Len(unique) : Lower(unique[k]) = Lower(c2)
            THEN CourtCandidates(Tail(cs), unique)
            ELSE CourtCandidates(Tail(cs), Append(unique, c2))

\* "supreme court of india"
SupremeCourtOfIndia == <<"s", "u", "p", "r", "e", "m", "e", " ", "c", "o",
    "u", "r", "t", " ", "o", "f", " ", "i", "n", "d", "i", "a">>

\* "supreme court"
SupremeCourt == <<"s", "u", "p", "r", "e", "m", "e", " ", "c", "o", "u",
    "r", "t">>

\* "high court of judicature"
HighCourtOfJudicature == <<"h", "i", "g", "h", " ", "c", "o", "u", "r", "t",
    " ", "o", "f", " ", "j", "u", "d", "i", "c", "a", "t", "u", "r", "e">>

\* "high court of"
HighCourtOf == <<"h", "i", "g", "h", " ", "c", "o", "u", "r", "t", " ", "o",
    "f">>

\* "high court"
HighCourt == <<"h", "i", "g", "h", " ", "c", "o", "u", "r", "t">>

\* "district court"
DistrictCourt == <<"d", "i", "s", "t", "r", "i", "c", "t", " ", "c", "o",
    "u", "r", "t">>

\* "judicial magistrate"
JudicialMagistrate == <<"j", "u", "d", "i", "c", "i", "a", "l", " ", "m",
    "a", "g", "i", "s", "t", "r", "a", "t", "e">>

\* "Supreme Court of India"
SupremeCourtOfIndiaTitle == <<"S", "u", "p", "r", "e", "m", "e", " ", "C",
    "o", "u", "r", "t", " ", "o", "f", " ", "I", "n", "d", "i", "a">>

\* "high court of judicature at"
HighCourtOfJudicatureAt == <<"h", "i", "g", "h", " ", "c", "o", "u", "r",
    "t", " ", "o", "f", " ", "j", "u", "d", "i", "c", "a", "t", "u", "r",
    "e", " ", "a", "t">>

\* "High Court of"
HighCourtOfTitle == <<"H", "i", "g", "h", " ", "C", "o", "u", "r", "t", " ",
    "o", "f">>

\* whether lowered needle occurs in s as \bneedle\b, at s[i], ignoring case
WordAt(s, i, needle) ==
    /\ i + Len(needle) - 1 <= Len(s)
    /\ Lower(SubSeq(s, i, i + Len(needle) - 1)) = needle
    /\ (i = 1 \/ s[i - 1] \notin WordChars)
    /\ (i + Len(needle) > Len(s) \/ s[i + Len(needle)] \notin WordChars)

\* the mutation of CourtScore: a high court scores 80 however it is named
CourtScoreAnyHighCourt(name) ==
    LET n == Lower(name)
    IN IF Contains(n, SupremeCourtOfIndia) \/ Contains(n, SupremeCourt) THEN 100
       ELSE IF Contains(n, HighCourt) THEN 80
       ELSE IF Contains(n, DistrictCourt) THEN 40
       ELSE IF Contains(n, JudicialMagistrate) THEN 30
       ELSE 10

\* score
CourtScore(name) ==
    LET n == Lower(name)
    IN IF Contains(n, SupremeCourtOfIndia) \/ Contains(n, SupremeCourt) THEN 100
       ELSE IF \/ Contains(n, HighCourtOfJudicature)
               \/ \E i \in 1..Len(n) :
                     /\ i + Len(HighCourtOf) - 1 <= Len(n)
                     /\ SubSeq(n, i, i + Len(HighCourtOf) - 1) = HighCourtOf
                     /\ (i + Len(HighCourtOf) > Len(n)
                         \/ n[i + Len(HighCourtOf)] \notin WordChars)
            THEN 80
       ELSE IF Contains(n, HighCourt) THEN 70
       ELSE IF Contains(n, DistrictCourt) THEN 40
       ELSE IF Contains(n, JudicialMagistrate) THEN 30
       ELSE 10

RECURSIVE ReplaceWordFrom(_, _, _, _)
\* re.sub(r'\bNEEDLE\b', rep, s, flags=re.I), from s[i] on
ReplaceWordFrom(s, i, needle, rep) ==
    IF i > Len(s) THEN <<>>
    ELSE IF WordAt(s, i, needle)
         THEN rep \o ReplaceWordFrom(s, i + Len(needle), needle, rep)
         ELSE <<s[i]>> \o ReplaceWordFrom(s, i + 1, needle, rep)

\* max(unique, key=score) raises ValueError on an empty unique
SelectPrimaryCourtRaises(cs) ==
    cs # <<>> /\ CourtCandidates(cs, <<>>) = <<>>

\* select_primary_court, where it does not raise
SelectPrimaryCourt(cs) ==
    IF cs = <<>> THEN None
    ELSE LET unique == CourtCandidates(cs, <<>>)
             top == {k \in 1..Len(unique) :
                        \A j \in 1..Len(unique) :
                            CourtScore(unique[j]) <= CourtScore(unique[k])}
             best == unique[SetMin(top)]
         IN Strip(ReplaceWordFrom(
                ReplaceWordFrom(best, 1, SupremeCourtOfIndia, SupremeCourtOfIndiaTitle),
                1, HighCourtOfJudicatureAt, HighCourtOfTitle))

\* the ValueError of max() on an empty list
ValueError == <<"ValueError">>

\* what a call of select_primary_court ends with
SelectPrimaryCourtOutcome(cs) ==
    IF SelectPrimaryCourtRaises(cs) THEN ValueError ELSE SelectPrimaryCourt(cs)

\* the strings of a candidate list: "", " ", "Agra", "12 March 2023"
SelTexts == {<<>>, DateBlank, CourtAgra, DateMarch}

MaxStrings == 2

\* the three selectors on one list of strings
SelInit ==
    /\ pc = "start"
    /\ \E strings \in SeqsUpTo(SelTexts, MaxStrings) :
          /\ case_numbers = strings
          /\ courts = strings
          /\ dates = strings
    /\ header_text = None
    /\ now \in Nows
    /\ primary_date = None
    /\ primary_case_number = NotCalled
    /\ primary_court = NotCalled
    /\ SegIdle
    /\ MergeIdle
    /\ RecordIdle
    /\ PartyIdle
    /\ NerIdle
    /\ ExtractIdle
    /\ UploadIdle

\* primary_case_number = select_primary_case_number(case_numbers)
CallSelectPrimaryCaseNumber ==
    /\ primary_case_number = NotCalled
    /\ primary_case_number' = SelectPrimaryCaseNumber(case_numbers)
    /\ UNCHANGED <<pc, case_numbers, courts, primary_court, segVars, mergeVars,
                   dateVars, recordVars, partyVars, nerVars, extractVars,
                   uploadVars>>

\* primary_court = select_primary_court(courts)
CallSelectPrimaryCourt ==
    /\ primary_court = NotCalled
    /\ primary_court' = SelectPrimaryCourtOutcome(courts)
    /\ UNCHANGED <<pc, case_numbers, courts, primary_case_number, segVars,
                   mergeVars, dateVars, recordVars, partyVars, nerVars, extractVars,
                   uploadVars>>

SelNext ==
    CallSelectPrimaryCaseNumber \/ CallSelectPrimaryCourt \/ CallSelectPrimaryDate

SpecSel == SelInit /\ [][SelNext]_vars

\* "SUPREME COURT OF INDIA"
CourtSupremeUpper == <<"S", "U", "P", "R", "E", "M", "E", " ", "C", "O", "U", "R", "T",
    " ", "O", "F", " ", "I", "N", "D", "I", "A">>

\* "High Court of Delhi"
CourtHighOfDelhi == <<"H", "i", "g", "h", " ", "C", "o", "u", "r", "t", " ", "o", "f",
    " ", "D", "e", "l", "h", "i">>

\* "Delhi High Court"
CourtDelhiHigh == <<"D", "e", "l", "h", "i", " ", "H", "i", "g", "h", " ", "C", "o",
    "u", "r", "t">>

\* "District Court"
CourtDistrict == <<"D", "i", "s", "t", "r", "i", "c", "t", " ", "C", "o", "u", "r",
    "t">>

\* "Judicial Magistrate"
CourtMagistrate == <<"J", "u", "d", "i", "c", "i", "a", "l", " ", "M", "a", "g", "i",
    "s", "t", "r", "a", "t", "e">>

\* the court names of a candidate list
CourtTexts ==
    {SupremeCourtOfIndiaTitle, CourtSupremeUpper, CourtHighOfDelhi, CourtDelhiHigh,
     CourtDistrict, CourtMagistrate, CourtAgra, CourtAgraUpper, CourtDelhi}

MaxCourts == 3

\* select_primary_court on a list of court names
CourtInit ==
    /\ pc = "start"
    /\ courts \in SeqsUpTo(CourtTexts, MaxCourts)
    /\ case_numbers = <<>>
    /\ primary_case_number = NotCalled
    /\ primary_court = NotCalled
    /\ SegIdle
    /\ MergeIdle
    /\ DateIdle
    /\ ClockIdle
    /\ RecordIdle
    /\ PartyIdle
    /\ NerIdle
    /\ ExtractIdle
    /\ UploadIdle

CourtNext == CallSelectPrimaryCourt

SpecCourt == CourtInit /\ [][CourtNext]_vars

\* the candidates as the selectors may return them: trimmed, inner
\* whitespace collapsed
Trimmed(cs) == {Strip(cs[k]) : k \in 1..Len(cs)} \cup {cs[k] : k \in 1..Len(cs)}

(* C11: select_primary_case_number, select_primary_court and               *)
(* select_primary_date raise for no list of strings, the empty list and    *)
(* lists of empty or whitespace-only entries included; each returns one of *)
(* the candidates or None.                                                 *)
SelectorsNeverRaise ==
    /\ primary_case_number \in Trimmed(case_numbers) \cup {None, NotCalled}
    /\ primary_court \in Trimmed(courts) \cup {None, NotCalled}
    /\ pc = "selected" => primary_date \in Trimmed(dates) \cup {None}

-----------------------------------------------------------------------------
(* C27: select_primary_court returns, of the candidates deduplicated       *)
(* without regard to case, the one of the highest authority: Supreme Court *)
(* 100, named High Court 80, generic High Court 70, District Court 40,     *)
(* Magistrate 30, any other 10; of several with the highest score the one  *)
(* seen first.                                                             *)
AuthorityOf(court) ==
    CASE court \in {SupremeCourtOfIndiaTitle, CourtSupremeUpper} -> 100
      [] court = CourtHighOfDelhi -> 80
      [] court = CourtDelhiHigh -> 70
      [] court = CourtDistrict -> 40
      [] court = CourtMagistrate -> 30
      [] OTHER -> 10

HighestAuthorityTieWitness ==
    /\ courts = <<CourtDelhi, CourtAgraUpper, CourtAgra>>
    /\ primary_court = CourtDelhi

-----------------------------------------------------------------------------
\* " v. "
VSep == <<" ", "v", ".", " ">>

\* the index after a match of \s+[Vv][Ss]?\.?\s+ at s[i], 0 if there is none;
\* with_s = FALSE is the pattern \s+v\.?\s+ under re.I
VersusEnd(s, i, with_s) ==
    LET w1  == RunLen(s, i, Whitespace)
        v   == i + w1
        s1  == IF with_s /\ v + 1 <= Len(s) /\ s[v + 1] \in {"S", "s"} THEN 1 ELSE 0
        dot == IF v + 1 + s1 <= Len(s) /\ s[v + 1 + s1] = "." THEN 1 ELSE 0
        w2  == RunLen(s, v + 1 + s1 + dot, Whitespace)
    IN IF w1 >= 1 /\ v <= Len(s) /\ s[v] \in {"V", "v"} /\ w2 >= 1
       THEN v + 1 + s1 + dot + w2 ELSE 0

RECURSIVE StandardizeVersusFrom(_, _)
\* re.sub(r'\s+[Vv][Ss]?\.?\s+', ' v. ', name), from name[i] on
StandardizeVersusFrom(s, i) ==
    IF i > Len(s) THEN <<>>
    ELSE IF VersusEnd(s, i, TRUE) > 0
         THEN VSep \o StandardizeVersusFrom(s, VersusEnd(s, i, TRUE))
         ELSE <<s[i]>> \o StandardizeVersusFrom(s, i + 1)

\* re.sub(r'\s+v\.?\s*$', '', name)
DropHangingVersus(s) ==
    LET hits == {i \in 1..Len(s) :
                    LET w1  == RunLen(s, i, Whitespace)
                        v   == i + w1
                        dot == IF v + 1 <= Len(s) /\ s[v + 1] = "." THEN 1 ELSE 0
                    IN /\ w1 >= 1
                       /\ v <= Len(s)
                       /\ s[v] = "v"
                       /\ v + dot + RunLen(s, v + 1 + dot, Whitespace) = Len(s)}
    IN IF hits = {} THEN s ELSE SubSeq(s, 1, SetMin(hits) - 1)

\* str.upper of one character
UpperChar(c) ==
    IF \E k \in 1..Len(LowerChars) : LowerChars[k] = c
    THEN UpperChars[CHOOSE k \in 1..Len(LowerChars) : LowerChars[k] = c]
    ELSE c

\* name[0].upper() + name[1:] if name else None
Capitalized(name) ==
    IF name = <<>> THEN None ELSE <<UpperChar(name[1])>> \o Tail(name)

\* normalize_case_name
NormalizeCaseName(name) ==
    IF name = None \/ name = <<>> THEN None
    ELSE Capitalized(Strip(CollapseWs(
             DropHangingVersus(StandardizeVersusFrom(name, 1)))))

RECURSIVE SplitVersusFrom(_, _, _)
\* re.split(r'\s+v\.?\s+', case_name, flags=re.I): the part that starts at
\* s[from] and the parts after it, scanning at s[i]
SplitVersusFrom(s, from, i) ==
    IF i > Len(s) THEN <<SubSeq(s, from, Len(s))>>
    ELSE IF VersusEnd(s, i, FALSE) > 0
         THEN <<SubSeq(s, from, i - 1)>>
              \o SplitVersusFrom(s, VersusEnd(s, i, FALSE), VersusEnd(s, i, FALSE))
         ELSE SplitVersusFrom(s, from, i + 1)

RECURSIVE Join(_, _)
\* sep.join(xs)
Join(sep, xs) ==
    IF xs = <<>> THEN <<>>
    ELSE IF Len(xs) = 1 THEN xs[1]
    ELSE xs[1] \o sep \o Join(sep, Tail(xs))

\* make_case_name
MakeCaseName(appellants, respondents) ==
    LET left  == Join(<<",", " ">>, appellants)
        right == Join(<<",", " ">>, respondents)
    IN IF left # <<>> /\ right # <<>> THEN left \o VSep \o right
       ELSE IF left # <<>> THEN left
       ELSE IF right # <<>> THEN right
       ELSE None

-----------------------------------------------------------------------------
(***************************************************************************)
(* ASSEMBLY: extract_full_data                                             *)
(***************************************************************************)
\* a dict without keys
EmptyDict == [k \in {} |-> <<>>]

\* the mutation of Put: the key is set whatever the value
PutUnguarded(key, value) == key :> value

\* `if value: structured[key] = value`, for a string or a list
Put(key, value) ==
    IF value # None /\ value # <<>> THEN key :> value ELSE EmptyDict

\* `if d: structured[key] = d`, for a dict
PutDict(key, d) == IF DOMAIN d # {} THEN key :> d ELSE EmptyDict

\* the parties filled in from the two parts of the case name
PartiesFrom(appellants, respondents, parts) ==
    IF Len(parts) = 2
    THEN <<IF appellants = <<>> THEN <<Strip(parts[1])>> ELSE appellants,
           IF respondents = <<>> THEN <<Strip(parts[2])>> ELSE respondents>>
    ELSE <<appellants, respondents>>

\* appellants and respondents after the case-name fallback
PartiesOf(case_name, doc) ==
    IF /\ case_name # None
       /\ Contains(case_name, VSep)
       /\ (doc.parties[1] = <<>> \/ doc.parties[2] = <<>>)
    THEN PartiesFrom(doc.parties[1], doc.parties[2],
                     SplitVersusFrom(case_name, 1, 1))
    ELSE doc.parties

\* case_name after the fallback on the parties
\* the mutation of CaseNameOf: every respondent is named
CaseNameOfAllRespondents(case_name, parties) ==
    IF case_name = None /\ parties[1] # <<>> /\ parties[2] # <<>>
    THEN MakeCaseName(parties[1], parties[2])
    ELSE case_name

CaseNameOf(case_name, parties) ==
    IF case_name = None /\ parties[1] # <<>> /\ parties[2] # <<>>
    THEN MakeCaseName(parties[1], <<parties[2][1]>>)
    ELSE case_name

\* structured["advocates"]
AdvocatesOf(adv_split) ==
    IF adv_split.for_appellants # <<>> \/ adv_split.for_respondent # <<>>
    THEN "advocates" :> (Put("for_appellants", adv_split.for_appellants)
                         @@ Put("for_respondent", adv_split.for_respondent))
    ELSE EmptyDict

\* structured["content_info"]
ContentOf(doc) ==
    LET clean_order == Put("result", doc.order_summary.result)
                       @@ Put("decision", doc.order_summary.decision)
                       @@ Put("directions", doc.order_summary.directions)
        content == Put("background_facts", doc.background_facts)
                   @@ PutDict("order_summary", clean_order)
    IN PutDict("content_info", content)

\* structured, with the parties as they stand after the fallback
StructuredWith(final, doc, today, parties) ==
    Put("case_name", CaseNameOf(NormalizeCaseName(doc.case_name), parties))
    @@ Put("appeal_number", SelectPrimaryCaseNumber(final["case_number"]))
    @@ Put("court", SelectPrimaryCourt(final["court"]))
    @@ Put("date_of_judgment", SelectPrimaryDate(final["date"], None, today))
    @@ Put("coram", final["coram"])
    @@ Put("appellants", parties[1])
    @@ (IF parties[2] # <<>> THEN "respondent" :> parties[2][1] ELSE EmptyDict)
    @@ AdvocatesOf(doc.adv_split)
    @@ Put("precedents", final["precedent"])
    @@ Put("provisions", final["provision"])
    @@ Put("statutes", final["statute"])
    @@ Put("lower_courts", final["extra_courts"])
    @@ Put("other_dates", final["extra_dates"])
    @@ ContentOf(doc)

\* the record extract_full_data returns, from the merged entities, what the
\* other extractors returned and the day of the run
StructuredOf(final, doc, today) ==
    StructuredWith(final, doc, today,
                   PartiesOf(NormalizeCaseName(doc.case_name), doc))

RECURSIVE GroupByLabel(_, _)
\* a dict of label -> values, as the (label, value) items it iterates to
GroupByLabel(labels, items) ==
    IF labels = <<>> THEN <<>>
    ELSE SelectSeq2(items, {c \in Range(items) : c[1] = Head(labels)})
         \o GroupByLabel(Tail(labels), items)

\* bert_output_header or bert_output_body: the tagger's spans of one zone
BertOutput(found, zone) ==
    LET items == SelectSeq2(found, {c \in Range(found) : c[3] = zone})
    IN GroupByLabel(Distinct([k \in 1..Len(items) |-> items[k][1]]), items)

\* bert_ents_list: the header zone's spans tagged " [header]", then the body
\* zone's tagged " [body]"
BertEntsList(found) ==
    LET tagged == BertOutput(found, "header") \o BertOutput(found, "body")
    IN [k \in 1..Len(tagged) |-> <<LabelUpper(tagged[k][1]), RawOf(tagged[k])>>]

\* extract_full_data after merge_entities: select_primary_court raises, or
\* the record is built and returned
RecordFrom(final, doc, today) ==
    IF SelectPrimaryCourtRaises(final["court"])
    THEN [pc |-> "raised", final_output |-> final, structured |-> NoRecord]
    ELSE [pc |-> "returned", final_output |-> final,
          structured |-> StructuredOf(final, doc, today)]

\* one call of extract_full_data: the merged entities, the record, and where
\* the call ends
ExtractFullData(found, seed, doc, today) ==
    RecordFrom(MergeEntities(BertEntsList(found), SpacyOf(found), seed), doc, today)

\* "."
CourtDot == <<".">>

\* "Ram Kumar"
NameRam == <<"R", "a", "m", " ", "K", "u", "m", "a", "r">>

\* "Mohan Lal"
NameMohan == <<"M", "o", "h", "a", "n", " ", "L", "a", "l">>

\* "State of UP"
NameState == <<"S", "t", "a", "t", "e", " ", "o", "f", " ", "U", "P">>

\* "A. Sharma"
NameSharma == <<"A", ".", " ", "S", "h", "a", "r", "m", "a">>

\* "In Re Ram Kumar"
CaseInRe == <<"I", "n", " ", "R", "e", " ", "R", "a", "m", " ", "K", "u",
    "m", "a", "r">>

\* "Not found"
TextNotFound == <<"N", "o", "t", " ", "f", "o", "u", "n", "d">>

\* "Appeal Allowed"
TextAllowed == <<"A", "p", "p", "e", "a", "l", " ", "A", "l", "l", "o", "w",
    "e", "d">>

\* "The appeal is allowed."
TextDecision == <<"T", "h", "e", " ", "a", "p", "p", "e", "a", "l", " ",
    "i", "s", " ", "a", "l", "l", "o", "w", "e", "d", ".">>

\* "The order is set aside."
TextDirection == <<"T", "h", "e", " ", "o", "r", "d", "e", "r", " ", "i",
    "s", " ", "s", "e", "t", " ", "a", "s", "i", "d", "e", ".">>

\* "The appellant was tried."
TextFact == <<"T", "h", "e", " ", "a", "p", "p", "e", "l", "l", "a", "n",
    "t", " ", "w", "a", "s", " ", "t", "r", "i", "e", "d", ".">>

\* extract_order_summary on an empty order zone
OrderOfEmptyZone == [decision |-> <<>>, directions |-> <<>>, result |-> TextNotFound]

\* extract_order_summary finding a result only
OrderWithResult ==
    [decision |-> TextNotFound, directions |-> <<>>, result |-> TextAllowed]

\* extract_order_summary finding a decision and a direction
OrderInFull ==
    [decision |-> TextDecision, directions |-> <<TextDirection>>,
     result |-> TextAllowed]

\* what extract_case_name_from_header, extract_parties, extract_advocates,
\* extract_background_facts and extract_order_summary return for a document
Documents ==
    {[case_name |-> None, parties |-> <<<<>>, <<>>>>,
      adv_split |-> [for_appellants |-> <<>>, for_respondent |-> <<>>],
      background_facts |-> <<>>, order_summary |-> OrderOfEmptyZone],
     [case_name |-> NameRam \o VSep \o NameState, parties |-> <<<<>>, <<>>>>,
      adv_split |-> [for_appellants |-> <<NameSharma>>, for_respondent |-> <<>>],
      background_facts |-> <<>>, order_summary |-> OrderOfEmptyZone],
     [case_name |-> None, parties |-> <<<<NameRam, NameMohan>>, <<NameState, NameSharma>>>>,
      adv_split |-> [for_appellants |-> <<>>, for_respondent |-> <<NameSharma>>],
      background_facts |-> <<>>, order_summary |-> OrderWithResult],
     [case_name |-> None, parties |-> <<<<NameRam>>, <<>>>>,
      adv_split |-> [for_appellants |-> <<NameSharma>>,
                     for_respondent |-> <<NameSharma>>],
      background_facts |-> <<TextFact>>, order_summary |-> OrderOfEmptyZone],
     [case_name |-> CaseInRe, parties |-> <<<<>>, <<NameState>>>>,
      adv_split |-> [for_appellants |-> <<>>, for_respondent |-> <<>>],
      background_facts |-> <<>>, order_summary |-> OrderInFull]}

\* the candidates of the documents: header and body are the tagger's zones
RecordCandidates ==
    {<<"COURT", CourtAgra, "header">>, <<"COURT", CourtDot, "spacy">>,
     <<"PRECEDENT", PrecRam, "header">>, <<"PRECEDENT", PrecRamMP, "spacy">>,
     <<"DATE", DateFuture, "spacy">>, <<"DATE", DateShortYear, "body">>}

RecordInit ==
    /\ pc = "start"
    /\ spans \in SeqsUpTo(RecordCandidates, MaxCandidates)
    /\ bert_ents_list = <<>>
    /\ spacy_regex_ents = <<>>
    /\ hashseed \in Orderings(PrecedentValues(BertEntsList(spans), SpacyOf(spans)))
    /\ final_output = NoOutput
    /\ document \in Documents
    /\ now \in Nows
    /\ structured = NoRecord
    /\ rerun \in [pc : {"start"},
                  hashseed : Orderings(PrecedentValues(BertEntsList(spans),
                                                       SpacyOf(spans))),
                  now : {n \in Nows : DateLeq(now, n)},
                  final_output : {NoOutput},
                  structured : {NoRecord}]
    /\ SegIdle
    /\ DateIdle
    /\ OtherIdle

\* structured = extract_full_data(text, segments)
CallExtractFullData ==
    /\ pc = "start"
    /\ bert_ents_list' = BertEntsList(spans)
    /\ spacy_regex_ents' = SpacyOf(spans)
    /\ \E r \in {ExtractFullData(spans, hashseed, document, now)} :
          /\ pc' = r.pc
          /\ final_output' = r.final_output
          /\ structured' = r.structured
    /\ UNCHANGED <<hashseed, spans, document, rerun, segVars, dateVars, otherVars>>

\* the same call once more, in a process of its own, on a later day or the same
CallExtractFullDataAgain ==
    /\ pc \in {"returned", "raised"}
    /\ rerun.pc = "start"
    /\ \E r \in {ExtractFullData(spans, rerun.hashseed, document, rerun.now)} :
          rerun' = [rerun EXCEPT !.pc = r.pc,
                                 !.final_output = r.final_output,
                                 !.structured = r.structured]
    /\ UNCHANGED <<pc, mergeVars, spans, document, structured, segVars, dateVars,
                   otherVars>>

Next == CallExtractFullData \/ CallExtractFullDataAgain

Spec == RecordInit /\ [][Next]_vars

\* the candidates of a document that names two courts and two dates: the
\* lesser or earlier one in the header, the other one in the body
AuthorityCandidates ==
    {<<"COURT", CourtAgra, "header">>, <<"COURT", SupremeCourtOfIndiaTitle, "spacy">>,
     <<"DATE", DateOrdinal, "header">>, <<"DATE", DateMarch, "spacy">>}

\* extract_full_data on these candidates
AuthorityInit ==
    /\ pc = "start"
    /\ spans \in SeqsUpTo(AuthorityCandidates, MaxCandidates)
    /\ bert_ents_list = <<>>
    /\ spacy_regex_ents = <<>>
    /\ hashseed = <<>>
    /\ final_output = NoOutput
    /\ document \in Documents
    /\ now \in Nows
    /\ structured = NoRecord
    /\ rerun \in [pc : {"start"},
                  hashseed : {<<>>},
                  now : {n \in Nows : DateLeq(now, n)},
                  final_output : {NoOutput},
                  structured : {NoRecord}]
    /\ SegIdle
    /\ DateIdle
    /\ OtherIdle

SpecAuthority == AuthorityInit /\ [][Next]_vars

-----------------------------------------------------------------------------
(* Properties of extract_full_data.                                        *)

\* the keys of the record that hold an object
DictKeys == {"advocates", "content_info", "order_summary"}

\* the value of d[k] is not an empty string, an empty list or an empty object
NonEmptyAt(d, k) ==
    IF k \in DictKeys THEN DOMAIN d[k] # {}
    ELSE d[k] # <<>> /\ d[k] # None

(* C2: the record returned by extract_full_data has no key, at the top     *)
(* level or nested under advocates, content_info or order_summary, whose   *)
(* value is an empty string, an empty list or an empty object.             *)
RecordHasNoEmptyValue ==
    pc = "returned" =>
        /\ \A k \in DOMAIN structured : NonEmptyAt(structured, k)
        /\ "advocates" \in DOMAIN structured =>
              \A k \in DOMAIN structured["advocates"] :
                  NonEmptyAt(structured["advocates"], k)
        /\ "content_info" \in DOMAIN structured =>
              LET content == structured["content_info"]
              IN /\ \A k \in DOMAIN content : NonEmptyAt(content, k)
                 /\ "order_summary" \in DOMAIN content =>
                       \A k \in DOMAIN content["order_summary"] :
                           NonEmptyAt(content["order_summary"], k)

\* a record with a court and an advocate for the appellants, from a document
\* without precedents, background facts, advocate for the respondent or
\* decision: those keys are left out
RecordOmitsEmptyWitness ==
    /\ pc = "returned"
    /\ final_output["court"] # <<>>
    /\ final_output["precedent"] = <<>>
    /\ document.background_facts = <<>>
    /\ document.order_summary.decision = <<>>
    /\ document.adv_split.for_appellants # <<>>
    /\ document.adv_split.for_respondent = <<>>
    /\ "court" \in DOMAIN structured
    /\ "precedents" \notin DOMAIN structured
    /\ DOMAIN structured["advocates"] = {"for_appellants"}
    /\ DOMAIN structured["content_info"] = {"order_summary"}
    /\ DOMAIN structured["content_info"]["order_summary"] = {"result"}

(* C3: two runs of extract_full_data on the same text and the same tagger  *)
(* predictions end the same way with the same merged entities and the same *)
(* record, the membership and order of the precedent list included.        *)
RunsAgree ==
    pc \in {"returned", "raised"} /\ rerun.pc \in {"returned", "raised"} =>
        /\ rerun.pc = pc
        /\ rerun.final_output = final_output
        /\ rerun.structured = structured

-----------------------------------------------------------------------------
(* C12: when the header yields no case name and both party lists are       *)
(* non-empty, the record's case_name is the appellants joined by ", ",     *)
(* then " v. ", then the first respondent; when a party list is empty the  *)
(* record has no case_name.                                                *)
CommaJoined(names) == Join(<<",", " ">>, names)

CaseNameFromParties ==
    pc = "returned" /\ NormalizeCaseName(document.case_name) = None =>
        IF document.parties[1] # <<>> /\ document.parties[2] # <<>>
        THEN /\ "case_name" \in DOMAIN structured
             /\ structured["case_name"] =
                    CommaJoined(document.parties[1]) \o <<" ", "v", ".", " ">>
                        \o document.parties[2][1]
        ELSE "case_name" \notin DOMAIN structured

\* a record named after two appellants and the first of two respondents
CaseNameFromPartiesWitness ==
    /\ pc = "returned"
    /\ document.case_name = None
    /\ Len(document.parties[1]) = 2
    /\ Len(document.parties[2]) = 2
    /\ "case_name" \in DOMAIN structured
    /\ structured["case_name"] =
           NameRam \o <<",", " ">> \o NameMohan \o <<" ", "v", ".", " ">> \o NameState

-----------------------------------------------------------------------------
(***************************************************************************)
(* PARTIES: extract_parties                                                *)
(*                                                                         *)
(* A header is represented by what the expressions of the four strategies  *)
(* find in it:                                                             *)
(*   empty     the text is "" or None                                      *)
(*   versus    the number of names in the two blocks around a VERSUS line, *)
(*             as _extract_names_from_block returns them, or NoMatch       *)
(*   inline    "none": no "X v. Y"; "short": one found, a side cleaned to  *)
(*             less than 3 characters; "pair": one found, both sides kept  *)
(*   labelled  the number of names on the "Appellant:" and on the          *)
(*             "Respondent:" line, NoMatch for a line that is not there    *)
(*   blocks    the same for the multi-line blocks after the labels         *)
(* A name is <<strategy, side, k>>: the k-th name of that block.           *)
(***************************************************************************)
\* appellants[:5]
MaxAppellants == 5

\* respondents[:3]
MaxRespondents == 3

\* the most names one block of a header holds
MaxNames == 6

NoMatch == -1

BlockSizes == {0, 2, MaxNames}

\* _extract_names_from_block on a block of n names
ExtractNamesFromBlock(strategy, side, n) ==
    [k \in 1..n |-> <<strategy, side, k>>]

\* strategy 4, for the side that strategy 3 left empty
BlockFallback(names, side, n) ==
    IF names = <<>> /\ n # NoMatch THEN ExtractNamesFromBlock("block", side, n)
    ELSE names

\* strategy 3, over what strategy 1 left
LabelledOr(names, side, n) ==
    IF n # NoMatch THEN ExtractNamesFromBlock("labelled", side, n) ELSE names

\* `return appellants, respondents` of strategy 1
VersusReturn(appellants, respondents) == <<appellants, respondents>>

\* strategies 3 and 4 and the final return
LabelledStrategies(h, appellants, respondents) ==
    <<FirstN(BlockFallback(LabelledOr(appellants, "appellant", h.labelled[1]),
                           "appellant", h.blocks[1]), MaxAppellants),
      FirstN(BlockFallback(LabelledOr(respondents, "respondent", h.labelled[2]),
                           "respondent", h.blocks[2]), MaxRespondents)>>

\* strategy 2 and what follows it
InlineStrategies(h, appellants, respondents) ==
    IF h.inline = "pair" /\ appellants = <<>>
    THEN <<ExtractNamesFromBlock("inline", "appellant", 1),
           ExtractNamesFromBlock("inline", "respondent", 1)>>
    ELSE LabelledStrategies(h, appellants, respondents)

\* strategy 1 and what follows it
VersusStrategies(h, appellants, respondents) ==
    IF appellants # <<>> /\ respondents # <<>>
    THEN VersusReturn(appellants, respondents)
    ELSE InlineStrategies(h, appellants, respondents)

\* extract_parties
ExtractParties(h) ==
    IF h.empty THEN <<<<>>, <<>>>>
    ELSE IF h.versus # <<NoMatch, NoMatch>>
         THEN VersusStrategies(h, ExtractNamesFromBlock("versus", "appellant", h.versus[1]),
                               ExtractNamesFromBlock("versus", "respondent", h.versus[2]))
         ELSE InlineStrategies(h, <<>>, <<>>)

EmptyHeader ==
    [empty |-> TRUE, versus |-> <<NoMatch, NoMatch>>, inline |-> "none",
     labelled |-> <<NoMatch, NoMatch>>, blocks |-> <<NoMatch, NoMatch>>]

PartyHeaders ==
    {EmptyHeader} \cup
    [empty : {FALSE},
     versus : {<<NoMatch, NoMatch>>} \cup (BlockSizes \X BlockSizes),
     inline : {"none", "short", "pair"},
     labelled : (BlockSizes \cup {NoMatch}) \X (BlockSizes \cup {NoMatch}),
     blocks : (BlockSizes \cup {NoMatch}) \X (BlockSizes \cup {NoMatch})]

PartyInit ==
    /\ pc = "start"
    /\ party_header \in PartyHeaders
    /\ extracted_parties = NotCalled
    /\ SegIdle
    /\ MergeIdle
    /\ DateIdle
    /\ ClockIdle
    /\ RecordIdle
    /\ SelIdle
    /\ NerIdle
    /\ ExtractIdle
    /\ UploadIdle

\* appellants, respondents = extract_parties(header_text, entities)
CallExtractParties ==
    /\ pc = "start"
    /\ extracted_parties' = ExtractParties(party_header)
    /\ pc' = "extracted"
    /\ UNCHANGED <<party_header, segVars, mergeVars, dateVars, recordVars, selVars,
                   nerVars, extractVars, uploadVars>>

PartyNext == CallExtractParties

SpecParties == PartyInit /\ [][PartyNext]_vars

(* C13: for every header text, whichever strategy produces the answer,     *)
(* extract_parties returns at most 5 appellants and at most 3 respondents. *)
PartiesCapped ==
    pc = "extracted" =>
        Len(extracted_parties[1]) <= 5 /\ Len(extracted_parties[2]) <= 3

-----------------------------------------------------------------------------
(* C25: extract_parties tries the versus block, the inline versus, the     *)
(* labelled lines and the multi-line blocks in this order and returns the  *)
(* lists of the first strategy that succeeds: a strategy that did not      *)
(* succeed, such as a versus block with names on one side only, gives no   *)
(* name to the result and does not keep a later strategy from running.     *)
StrategiesOf(result) ==
    {result[1][k][1] : k \in 1..Len(result[1])} \cup
    {result[2][k][1] : k \in 1..Len(result[2])}

VersusSucceeds(h) == h.versus[1] > 0 /\ h.versus[2] > 0

FirstSucceedingStrategy ==
    pc = "extracted" /\ ~party_header.empty =>
        /\ VersusSucceeds(party_header) => StrategiesOf(extracted_parties) = {"versus"}
        /\ ~VersusSucceeds(party_header) =>
               /\ "versus" \notin StrategiesOf(extracted_parties)
               /\ IF party_header.inline = "pair"
                  THEN StrategiesOf(extracted_parties) = {"inline"}
                  ELSE "inline" \notin StrategiesOf(extracted_parties)

\* the same on the headers whose versus block has names on both sides or on
\* neither
FirstSucceedingStrategyTwoSided ==
    (party_header.versus[1] > 0 <=> party_header.versus[2] > 0)
        => FirstSucceedingStrategy

-----------------------------------------------------------------------------
(***************************************************************************)
(* TAGGER ADAPTER: post_process_ner                                        *)
(*                                                                         *)
(* A text is its words, separated by single blanks, and the (label, span)  *)
(* pairs the fallback expressions find in it.  A prediction is a token     *)
(* [entity, start, end]: entity the tag split at "-", e.g. <<"B",          *)
(* "COURT">> for "B-COURT", start and end the numbers of the first and the *)
(* last word the token covers.                                             *)
(***************************************************************************)
\* ALL_LABELS
AllLabels ==
    {"CASE_NUMBER", "COURT", "DATE", "JUDGE", "PETITIONER", "RESPONDENT",
     "PRECEDENT", "PROVISION", "STATUTE", "LAWYER", "ORGANIZATION", "GPE"}

\* label.lower()
LabelLower(label) ==
    CASE label = "CASE_NUMBER" -> "case_number"
      [] label = "COURT" -> "court"
      [] label = "DATE" -> "date"
      [] label = "JUDGE" -> "judge"
      [] label = "PETITIONER" -> "petitioner"
      [] label = "RESPONDENT" -> "respondent"
      [] label = "PRECEDENT" -> "precedent"
      [] label = "PROVISION" -> "provision"
      [] label = "STATUTE" -> "statute"
      [] label = "LAWYER" -> "lawyer"
      [] label = "ORGANIZATION" -> "organization"
      [] label = "GPE" -> "gpe"
      [] label = "WITNESS" -> "witness"
      [] label = "NUMBER" -> "number"

\* token.get("entity", "O").split("-")[-1]
EntityOf(token) == token.entity[Len(token.entity)]

\* current before the first token and after a flush
NoSpan == [entity |-> "None", start |-> 0, end |-> 0]

\* text[buffer["start"]:buffer["end"]]
SpanText(words, first, last) ==
    Join(<<" ">>, SubSeq(words, first, IF last < Len(words) THEN last ELSE Len(words)))

\* re.sub(r'\s+', ' ', span.replace('\n', ' ')).strip(' ,.;:')
CleanSpan(span) == StripChars(CollapseWs(span), {" ", ",", ".", ";", ":"})

\* grouped after appending a span of more than one character
WithSpan(grouped, entity, span) ==
    IF Len(span) > 1 THEN Append(grouped, <<entity, span>>) ELSE grouped

\* _flush_current_span
FlushCurrentSpan(current, words, grouped) ==
    IF current.entity # "None"
    THEN WithSpan(grouped, current.entity,
                  CleanSpan(SpanText(words, current.start, current.end)))
    ELSE grouped

RECURSIVE GroupTokensNoMerge(_, _, _, _)
\* the mutation of GroupTokens: a token of the entity of the current span
\* starts a span of its own
GroupTokensNoMerge(preds, words, current, grouped) ==
    IF preds = <<>> THEN FlushCurrentSpan(current, words, grouped)
    ELSE IF EntityOf(Head(preds)) = "O"
         THEN GroupTokensNoMerge(Tail(preds), words, NoSpan,
                                 FlushCurrentSpan(current, words, grouped))
    ELSE GroupTokensNoMerge(Tail(preds), words,
                            [entity |-> EntityOf(Head(preds)),
                             start |-> Head(preds).start, end |-> Head(preds).end],
                            FlushCurrentSpan(current, words, grouped))

RECURSIVE GroupTokens(_, _, _, _)
\* step 1: the token predictions grouped into spans
GroupTokens(preds, words, current, grouped) ==
    IF preds = <<>> THEN FlushCurrentSpan(current, words, grouped)
    ELSE IF EntityOf(Head(preds)) = "O"
         THEN GroupTokens(Tail(preds), words, NoSpan,
                          FlushCurrentSpan(current, words, grouped))
    ELSE IF current.entity = EntityOf(Head(preds))
         THEN GroupTokens(Tail(preds), words,
                          [current EXCEPT !.end = Head(preds).end], grouped)
    ELSE GroupTokens(Tail(preds), words,
                     [entity |-> EntityOf(Head(preds)),
                      start |-> Head(preds).start, end |-> Head(preds).end],
                     FlushCurrentSpan(current, words, grouped))

\* normalize_entity, for the labels other than organization and statute
NormalizeEntity(value) == Strip(value)

\* the value of a span in step 3
EntityValue(span) ==
    NormalizeEntity(StripChars(CollapseWs(span), {" ", ",", ".", ";", ":", "\n"}))

\* the mutation of InEntityDict: every label has a bucket
InEntityDictAny(lab) == TRUE

\* lab in entity_dict
InEntityDict(lab) == lab \in AllLabels

\* entity_dict[lab] after both loops of step 3
EntityDict(items, lab) ==
    {EntityValue(items[k][2]) :
        k \in {j \in 1..Len(items) :
                  /\ LabelUpper(items[j][1]) = lab
                  /\ EntityValue(items[j][2]) # <<>>
                  /\ InEntityDict(lab)}}

\* final; sorted(list(values)) is given as the set it lists
FinalOf(items) ==
    [key \in {LabelLower(LabelUpper(items[k][1])) :
                 k \in {j \in 1..Len(items) :
                           EntityDict(items, LabelUpper(items[j][1])) # {}}}
        |-> UNION {EntityDict(items, LabelUpper(items[k][1])) :
                      k \in {j \in 1..Len(items) :
                                LabelLower(LabelUpper(items[j][1])) = key}}]

\* post_process_ner
PostProcessNer(text, preds) ==
    FinalOf(GroupTokens(preds, text.words, NoSpan, <<>>) \o text.fallback)

\* "J"
WordJ == <<"J">>

\* "Pune"
WordPune == <<"P", "u", "n", "e">>

\* ""
EmptyNerText == [words |-> <<>>, fallback |-> <<>>]

\* "Agra J Delhi Pune": the city list of the fallback finds Delhi
CitiesNerText ==
    [words |-> <<CourtAgra, WordJ, CourtDelhi, WordPune>>,
     fallback |-> <<<<"GPE", CourtDelhi>>>>]

NerTexts == {EmptyNerText, CitiesNerText}

\* the tags of the predictions: O, B-COURT, I-COURT, B-court, B-WITNESS,
\* I-WITNESS, B-CASE-NUMBER
EntityTags ==
    {<<"O">>, <<"B", "COURT">>, <<"I", "COURT">>, <<"B", "court">>,
     <<"B", "WITNESS">>, <<"I", "WITNESS">>, <<"B", "CASE", "NUMBER">>}

MaxPreds == 3

\* one token a word, in the order of the text
TokensOf(tags) ==
    [k \in 1..Len(tags) |-> [entity |-> tags[k], start |-> k, end |-> k]]

NerInit ==
    /\ pc = "start"
    /\ ner_text \in NerTexts
    /\ \E tags \in SeqsUpTo(EntityTags, MaxPreds) : raw_preds = TokensOf(tags)
    /\ ner_output = NoOutput
    /\ SegIdle
    /\ MergeIdle
    /\ DateIdle
    /\ ClockIdle
    /\ RecordIdle
    /\ SelIdle
    /\ PartyIdle
    /\ ExtractIdle
    /\ UploadIdle

\* ner_output = post_process_ner(text, raw_preds)
CallPostProcessNer ==
    /\ ner_output = NoOutput
    /\ ner_output' = PostProcessNer(ner_text, raw_preds)
    /\ UNCHANGED <<pc, ner_text, raw_preds, segVars, mergeVars, dateVars,
                   recordVars, selVars, partyVars, extractVars, uploadVars>>

NerNext == CallPostProcessNer

SpecNer == NerInit /\ [][NerNext]_vars

(* C18: a prediction whose label, the B-/I- prefix removed, is outside     *)
(* ALL_LABELS is dropped by post_process_ner: the output has no key        *)
(* outside the lower-cased label set, and the call returns.                *)
UnknownLabelsDropped ==
    ner_output # NoOutput =>
        DOMAIN ner_output \subseteq
            {"case_number", "court", "date", "judge", "petitioner", "respondent",
             "precedent", "provision", "statute", "lawyer", "organization", "gpe"}

\* a WITNESS prediction over a word of the text, dropped from an output that
\* keeps the court of another prediction
UnknownLabelsDroppedWitness ==
    /\ ner_output # NoOutput
    /\ ner_text = CitiesNerText
    /\ \E k \in 1..Len(raw_preds) :
          /\ EntityOf(raw_preds[k]) = "WITNESS"
          /\ Len(ner_text.words[raw_preds[k].start]) > 1
    /\ "court" \in DOMAIN ner_output

-----------------------------------------------------------------------------
(* C24: the token grouping of post_process_ner: each maximal run of        *)
(* consecutive tokens of one label other than O, the B-/I- prefix left     *)
(* aside, gives exactly one span, from the start of its first token to the *)
(* end of its last; an O token or another label ends the run; a span whose *)
(* trimmed text has fewer than 2 characters is discarded.                  *)
RunStartsAt(k) ==
    /\ EntityOf(raw_preds[k]) # "O"
    /\ (k = 1 \/ EntityOf(raw_preds[k - 1]) # EntityOf(raw_preds[k]))

RunEnd(k) ==
    CHOOSE j \in k..Len(raw_preds) :
        /\ \A i \in k..j : EntityOf(raw_preds[i]) = EntityOf(raw_preds[k])
        /\ (j = Len(raw_preds) \/ EntityOf(raw_preds[j + 1]) # EntityOf(raw_preds[k]))

RunSpan(k) ==
    StripChars(CollapseWs(SpanText(ner_text.words, raw_preds[k].start,
                                   raw_preds[RunEnd(k)].end)),
               {" ", ",", ".", ";", ":"})

RECURSIVE RunSpansFrom(_)
RunSpansFrom(k) ==
    IF k > Len(raw_preds) THEN <<>>
    ELSE IF RunStartsAt(k) /\ Len(RunSpan(k)) >= 2
         THEN <<<<EntityOf(raw_preds[k]), RunSpan(k)>>>> \o RunSpansFrom(k + 1)
         ELSE RunSpansFrom(k + 1)

CourtRunSpans ==
    {RunSpansFrom(1)[k][2] :
        k \in {j \in 1..Len(RunSpansFrom(1)) : RunSpansFrom(1)[j][1] \in {"COURT", "court"}}}

TokenRunsGrouped ==
    ner_output # NoOutput =>
        /\ GroupTokens(raw_preds, ner_text.words, NoSpan, <<>>) = RunSpansFrom(1)
        /\ CourtRunSpans = IF "court" \in DOMAIN ner_output THEN ner_output["court"] ELSE {}

\* a run of two COURT tokens ended by a token of another label: one court,
\* "Agra J", although "J" alone is too short for a span
TokenRunsGroupedWitness ==
    /\ ner_output # NoOutput
    /\ ner_text = CitiesNerText
    /\ Len(raw_preds) = 3
    /\ raw_preds[1].entity = <<"B", "COURT">>
    /\ raw_preds[2].entity = <<"I", "COURT">>
    /\ EntityOf(raw_preds[3]) = "WITNESS"
    /\ ner_output["court"] = {CourtAgra \o <<" ">> \o WordJ}

-----------------------------------------------------------------------------
(* C19: key presence is the only availability signal of the record: with   *)
(* an empty order zone the record has no order_summary entry, with no      *)
(* decision found it has no decision key, and no key holds a placeholder   *)
(* standing for a value that was not found.                                *)
OrderSummaryOf(record) ==
    IF "content_info" \in DOMAIN record
       /\ "order_summary" \in DOMAIN record["content_info"]
    THEN record["content_info"]["order_summary"]
    ELSE EmptyDict

NoPlaceholderInRecord ==
    pc = "returned" =>
        /\ document.order_summary = OrderOfEmptyZone =>
               OrderSummaryOf(structured) = EmptyDict
        /\ \A k \in DOMAIN OrderSummaryOf(structured) :
               OrderSummaryOf(structured)[k] # <<"N", "o", "t", " ", "f", "o", "u", "n", "d">>

-----------------------------------------------------------------------------
(***************************************************************************)
(* THE EXTRACTORS OF ONE DOCUMENT                                          *)
(*                                                                         *)
(* extract_advocates, extract_background_facts, extract_order_summary and  *)
(* extract_case_name_from_header on a text that is empty, or on one given  *)
(* by what their expressions find in it; extract_parties and               *)
(* post_process_ner as above.                                              *)
(***************************************************************************)
\* extract_advocates
ExtractAdvocates(text) ==
    IF text.empty THEN [for_appellants |-> <<>>, for_respondent |-> <<>>]
    ELSE text.found.adv_split

\* A body is given by its paragraphs, the pieces between blank lines, each
\* by its class:
\*   short    40 characters of prose
\*   padded   120 characters, half of them white space that clean_text drops
\*   upper    120 characters, capital letters and blanks only
\*   long     120 characters of prose
\*   huge     2900 characters of prose
ParaKinds == {"short", "padded", "upper", "long", "huge"}

\* len(para) in body_text
RawLen(kind) ==
    CASE kind = "short" -> 40
      [] kind = "huge" -> 2900
      [] OTHER -> 120

\* body_text[:3000]
EarlyTextLimit == 3000

\* len(para) >= 100
MinFallbackLen == 100

\* paragraphs[:5] and facts[:5]
MaxFallbackParas == 5

RECURSIVE StartOf(_, _)
\* the offset in body_text of paragraph i; "\n\n" stands between two
StartOf(paras, i) ==
    IF i = 1 THEN 0 ELSE StartOf(paras, i - 1) + RawLen(paras[i - 1]) + 2

\* the characters of paragraph i that early_text holds
KeptLen(paras, i) ==
    IF StartOf(paras, i) + RawLen(paras[i]) <= EarlyTextLimit THEN RawLen(paras[i])
    ELSE IF StartOf(paras, i) < EarlyTextLimit THEN EarlyTextLimit - StartOf(paras, i)
    ELSE 0

\* re.split(r'\n\s*\n+', early_text): the paragraphs early_text holds
EarlyParagraphs(paras) ==
    SelectSeq([i \in 1..Len(paras) |-> i], LAMBDA i : KeptLen(paras, i) > 0)

\* len(clean_text(para)) of paragraph i of early_text
CleanLen(paras, i) ==
    IF paras[i] = "padded" THEN KeptLen(paras, i) \div 2 ELSE KeptLen(paras, i)

\* len(para) >= 100 and not re.match(r'^[A-Z\s]+$', para)
Substantial(paras, i) ==
    CleanLen(paras, i) >= MinFallbackLen /\ paras[i] # "upper"

\* the fallback of extract_background_facts; a fact is given as the number
\* of its paragraph
FallbackFacts(paras) ==
    FirstN(SelectSeq(FirstN(EarlyParagraphs(paras), MaxFallbackParas),
                     LAMBDA i : Substantial(paras, i)),
           MaxFallbackParas)

\* extract_background_facts: the facts found under a heading, or the fallback
ExtractBackgroundFacts(text) ==
    IF text.empty THEN <<>>
    ELSE IF text.found.background_facts # <<>> THEN text.found.background_facts
    ELSE FallbackFacts(text.paragraphs)

\* An order zone is given by its lines, each by its class:
\*   heading    "ORDER"
\*   item       "1. The appellant shall pay the costs."    numbered, the text
\*              after the number 20 characters or more
\*   shortitem  "2. Costs."                                numbered, shorter
\*   lettered   "(a) The respondent shall pay nothing."    lettered
ZoneKinds == {"heading", "item", "shortitem", "lettered"}

\* len(line), and the length of the number or letter it starts with
LineLen(kind) ==
    CASE kind = "heading" -> 5
      [] kind = "item" -> 37
      [] kind = "shortitem" -> 9
      [] kind = "lettered" -> 37

PrefixLen(kind) == IF kind = "lettered" THEN 4 ELSE IF kind = "heading" THEN 0 ELSE 3

\* len(direction) >= 20
MinDirectionLen == 20

\* directions[:10]
MaxDirections == 10

RECURSIVE CleanedLen(_)
\* len(clean_text(order_text)): the lines joined by single blanks
CleanedLen(zone) ==
    IF zone = <<>> THEN 0
    ELSE IF Len(zone) = 1 THEN LineLen(zone[1])
    ELSE LineLen(Head(zone)) + 1 + CleanedLen(Tail(zone))

\* the matches of a direction pattern whose items start with `starts`: the
\* cleaned text has no "\n" left, so the pattern matches at the start of the
\* text only and its group runs to the end; a direction is given by the
\* first and the last line it covers
DirectionsFrom(zone, starts) ==
    IF zone[1] \in starts /\ CleanedLen(zone) - PrefixLen(zone[1]) >= MinDirectionLen
    THEN <<[first |-> 1, last |-> Len(zone)]>>
    ELSE <<>>

\* directions[:10] of extract_order_summary: the numbered pattern, then the
\* lettered one; the third pattern wants a "\n" before the end of the text
\* and finds nothing
DirectionsOf(zone) ==
    FirstN(IF DirectionsFrom(zone, {"item", "shortitem"}) # <<>>
           THEN DirectionsFrom(zone, {"item", "shortitem"})
           ELSE DirectionsFrom(zone, {"lettered"}),
           MaxDirections)

\* extract_order_summary; full_text, which extract_full_data does not read,
\* is left out.  A text is given by the lines of its zone, or by what the
\* expressions find in it
ExtractOrderSummary(text) ==
    IF text.empty THEN OrderOfEmptyZone
    ELSE IF text.zone = <<>> THEN text.found.order_summary
    ELSE [text.found.order_summary EXCEPT !.directions = DirectionsOf(text.zone)]

\* extract_case_name_from_header
ExtractCaseNameFromHeader(text) ==
    IF text.empty THEN None ELSE text.found.case_name

\* "" or None
EmptyDocText ==
    [empty |-> TRUE, found |-> NoDocument, paragraphs |-> <<>>, zone |-> <<>>]

DocTexts ==
    {EmptyDocText} \cup
    {[empty |-> FALSE, found |-> d, paragraphs |-> <<>>, zone |-> <<>>] : d \in Documents}

\* the header of a document with text: "X v. Y" inline, or labelled lines
\* of two names each
CaptionedHeaders ==
    {[EmptyHeader EXCEPT !.empty = FALSE, !.inline = "pair"],
     [EmptyHeader EXCEPT !.empty = FALSE, !.labelled = <<2, 2>>]}

ExtractInit ==
    /\ pc = "start"
    /\ doc_text \in DocTexts
    /\ party_header \in IF doc_text.empty THEN {EmptyHeader} ELSE CaptionedHeaders
    /\ ner_text = IF doc_text.empty THEN EmptyNerText ELSE CitiesNerText
    /\ raw_preds \in IF doc_text.empty THEN {<<>>}
                     ELSE {<<>>, TokensOf(<<<<"B", "COURT">>>>)}
    /\ extracted = EmptyDict
    /\ extracted_parties = NotCalled
    /\ ner_output = NoOutput
    /\ SegIdle
    /\ MergeIdle
    /\ DateIdle
    /\ ClockIdle
    /\ RecordIdle
    /\ SelIdle
    /\ UploadIdle

\* adv_split = extract_advocates(text)
CallExtractAdvocates ==
    /\ "advocates" \notin DOMAIN extracted
    /\ extracted' = extracted @@ ("advocates" :> ExtractAdvocates(doc_text))
    /\ UNCHANGED <<pc, doc_text, segVars, mergeVars, dateVars, recordVars, selVars,
                   partyVars, nerVars, uploadVars>>

\* background_facts = extract_background_facts(segments["body"])
CallExtractBackgroundFacts ==
    /\ "background_facts" \notin DOMAIN extracted
    /\ extracted' =
           extracted @@ ("background_facts" :> ExtractBackgroundFacts(doc_text))
    /\ UNCHANGED <<pc, doc_text, segVars, mergeVars, dateVars, recordVars, selVars,
                   partyVars, nerVars, uploadVars>>

\* order_summary = extract_order_summary(segments["order"])
CallExtractOrderSummary ==
    /\ "order_summary" \notin DOMAIN extracted
    /\ extracted' = extracted @@ ("order_summary" :> ExtractOrderSummary(doc_text))
    /\ UNCHANGED <<pc, doc_text, segVars, mergeVars, dateVars, recordVars, selVars,
                   partyVars, nerVars, uploadVars>>

\* extract_case_name_from_header(segments["header"])
CallExtractCaseNameFromHeader ==
    /\ "case_name" \notin DOMAIN extracted
    /\ extracted' = extracted @@ ("case_name" :> ExtractCaseNameFromHeader(doc_text))
    /\ UNCHANGED <<pc, doc_text, segVars, mergeVars, dateVars, recordVars, selVars,
                   partyVars, nerVars, uploadVars>>

ExtractNext ==
    \/ CallExtractParties
    \/ CallPostProcessNer
    \/ CallExtractAdvocates
    \/ CallExtractBackgroundFacts
    \/ CallExtractOrderSummary
    \/ CallExtractCaseNameFromHeader

SpecExtract == ExtractInit /\ [][ExtractNext]_vars

\* the most paragraphs of a body
MaxParas == 6

\* the bodies: no fact heading matches, or one does and gives a fact
BodyTexts ==
    {[empty |-> FALSE, found |-> d, paragraphs |-> ps, zone |-> <<>>] :
        d \in {doc \in Documents : doc.case_name = None /\ doc.parties[2] = <<>>},
        ps \in SeqsUpTo(ParaKinds, MaxParas)}

\* extract_background_facts on a body
FactsInit ==
    /\ pc = "start"
    /\ doc_text \in BodyTexts
    /\ extracted = EmptyDict
    /\ SegIdle
    /\ MergeIdle
    /\ DateIdle
    /\ ClockIdle
    /\ RecordIdle
    /\ SelIdle
    /\ PartyIdle
    /\ NerIdle
    /\ UploadIdle

FactsNext == CallExtractBackgroundFacts

SpecFacts == FactsInit /\ [][FactsNext]_vars

\* the most lines of an order zone
MaxZoneLines == 4

\* the order zones: a result is found in them, a decision is or is not
ZoneTexts ==
    {[empty |-> FALSE, found |-> d, paragraphs |-> <<>>, zone |-> z] :
        d \in {doc \in Documents : doc.order_summary # OrderOfEmptyZone},
        z \in SeqsUpTo(ZoneKinds, MaxZoneLines) \ {<<>>}}

\* extract_order_summary on an order zone
OrderInit ==
    /\ pc = "start"
    /\ doc_text \in ZoneTexts
    /\ extracted = EmptyDict
    /\ SegIdle
    /\ MergeIdle
    /\ DateIdle
    /\ ClockIdle
    /\ RecordIdle
    /\ SelIdle
    /\ PartyIdle
    /\ NerIdle
    /\ UploadIdle

OrderNext == CallExtractOrderSummary

SpecOrder == OrderInit /\ [][OrderNext]_vars

(* C28: the fallback of extract_background_facts: when no fact heading     *)
(* matches, the result is the first 5, in the order of the document, of    *)
(* the paragraphs of the first 3000 characters of the body that have 100   *)
(* characters or more and are not all upper case; such a paragraph is      *)
(* returned also when five or more paragraphs that do not qualify stand    *)
(* before it.                                                              *)
QualifyingParagraphs ==
    SelectSeq([i \in 1..Len(doc_text.paragraphs) |-> i],
              LAMBDA i : /\ StartOf(doc_text.paragraphs, i) < 3000
                         /\ doc_text.paragraphs[i] \in {"long", "huge"}
                         /\ StartOf(doc_text.paragraphs, i) + 100 <= 3000)

FirstFiveQualifying ==
    "background_facts" \in DOMAIN extracted /\ doc_text.found.background_facts = <<>> =>
        extracted["background_facts"] =
            SubSeq(QualifyingParagraphs, 1,
                   IF Len(QualifyingParagraphs) < 5 THEN Len(QualifyingParagraphs) ELSE 5)

\* the same for the bodies whose first qualifying paragraphs stand among
\* the first five paragraphs
FirstFiveQualifyingEarly ==
    (\A k \in 1..Len(QualifyingParagraphs) : k <= 5 => QualifyingParagraphs[k] <= 5)
        => FirstFiveQualifying

(* C16: given empty text each extractor returns, and what it returns       *)
(* carries no extracted content: extract_parties two empty lists,          *)
(* post_process_ner (no predictions) an empty mapping,                     *)
(* extract_background_facts an empty list, extract_case_name_from_header   *)
(* None, extract_advocates and extract_order_summary a mapping whose       *)
(* fields are all empty.                                                   *)
AllFieldsEmpty(d) == \A k \in DOMAIN d : d[k] = <<>>

EmptyTextEmptyResults ==
    doc_text.empty =>
        /\ pc = "extracted" => extracted_parties = <<<<>>, <<>>>>
        /\ ner_output # NoOutput => ner_output = EmptyDict
        /\ "advocates" \in DOMAIN extracted => AllFieldsEmpty(extracted["advocates"])
        /\ "background_facts" \in DOMAIN extracted =>
               extracted["background_facts"] = <<>>
        /\ "case_name" \in DOMAIN extracted => extracted["case_name"] = None
        /\ "order_summary" \in DOMAIN extracted =>
               AllFieldsEmpty(extracted["order_summary"])

\* the same, extract_order_summary left aside
EmptyTextEmptyResultsButOrder ==
    doc_text.empty /\ "order_summary" \notin DOMAIN extracted => EmptyTextEmptyResults

-----------------------------------------------------------------------------
(***************************************************************************)
(* UPLOADS: extract_info                                                   *)
(*                                                                         *)
(* The requests run on one event loop: a request runs until its await,     *)
(* `await file.read()`, which it reaches with its path opened for writing, *)
(* and from its resumption to its response without interruption.  The      *)
(* uploads folder is a directory (path to file number, 0 for no entry) and *)
(* the files' contents; the file a request creates has the request's       *)
(* number; the bytes of request r are r, and 0 is no bytes.  A file that   *)
(* is removed stays writable through the handles opened on it.             *)
(***************************************************************************)
NumRequests == 2

Requests == 1..NumRequests

\* the file names of the uploads
FileNames == {"case.pdf", "my case.pdf", "my_case.pdf", "notes.txt"}

\* file.filename.endswith('.pdf')
EndsWithPdf(name) == name # "notes.txt"

\* secure_filename(file.filename)
SecureFilename(name) == IF name = "my case.pdf" THEN "my_case.pdf" ELSE name

Paths == {SecureFilename(n) : n \in FileNames}

NoBytes == 0

NoEntry == 0

NoResponse == [status |-> 0, structured |-> NoBytes]

\* open(path, "wb"): the entry's file emptied, or a new file entered
OpenForWriting(files, path, r) ==
    IF files.dir[path] # NoEntry
    THEN [dir |-> files.dir,
          data |-> [files.data EXCEPT ![files.dir[path]] = NoBytes]]
    ELSE [dir |-> [files.dir EXCEPT ![path] = r],
          data |-> [files.data EXCEPT ![r] = NoBytes]]

\* buffer.write(...) and the close at the end of the with block
WriteBytes(files, fd, bytes) ==
    [dir |-> files.dir, data |-> [files.data EXCEPT ![fd] = bytes]]

\* the try block: extract_text_from_pdf(path) raises when the path has no
\* entry or the file holds no PDF; otherwise the record of the file's
\* document is returned
ResponseOf(files, path) ==
    IF files.dir[path] = NoEntry \/ files.data[files.dir[path]] = NoBytes
    THEN [status |-> 500, structured |-> NoBytes]
    ELSE [status |-> 200, structured |-> files.data[files.dir[path]]]

\* the finally block: os.remove(path) if os.path.exists(path)
RemovePath(files, path) ==
    [dir |-> [files.dir EXCEPT ![path] = NoEntry], data |-> files.data]

UploadInit ==
    /\ pc = "serving"
    /\ fs = [dir |-> [p \in Paths |-> NoEntry], data |-> [r \in Requests |-> NoBytes]]
    /\ requests \in [Requests -> [pc : {"received"}, filename : FileNames,
                                  fd : {NoEntry}, response : {NoResponse}]]
    /\ SegIdle
    /\ MergeIdle
    /\ DateIdle
    /\ ClockIdle
    /\ RecordIdle
    /\ SelIdle
    /\ PartyIdle
    /\ NerIdle
    /\ ExtractIdle

\* a request whose file name does not end with .pdf
RejectUpload(r) ==
    /\ requests[r].pc = "received"
    /\ ~EndsWithPdf(requests[r].filename)
    /\ requests' = [requests EXCEPT ![r].pc = "done",
                                    ![r].response = [status |-> 400,
                                                     structured |-> NoBytes]]
    /\ UNCHANGED <<pc, fs, segVars, mergeVars, dateVars, recordVars, selVars,
                   partyVars, nerVars, extractVars>>

\* from the start of extract_info to `await file.read()`
OpenUpload(r) ==
    /\ requests[r].pc = "received"
    /\ EndsWithPdf(requests[r].filename)
    /\ fs' = OpenForWriting(fs, SecureFilename(requests[r].filename), r)
    /\ requests' = [requests EXCEPT ![r].pc = "reading",
                                    ![r].fd = fs'.dir[SecureFilename(requests[r].filename)]]
    /\ UNCHANGED <<pc, segVars, mergeVars, dateVars, recordVars, selVars,
                   partyVars, nerVars, extractVars>>

\* from the resumption after `await file.read()` to the response
ResumeUpload(r) ==
    /\ requests[r].pc = "reading"
    /\ requests' = [requests EXCEPT ![r].pc = "done",
                                    ![r].response =
                                        ResponseOf(WriteBytes(fs, requests[r].fd, r),
                                                   SecureFilename(requests[r].filename))]
    /\ fs' = RemovePath(WriteBytes(fs, requests[r].fd, r),
                        SecureFilename(requests[r].filename))
    /\ UNCHANGED <<pc, segVars, mergeVars, dateVars, recordVars, selVars,
                   partyVars, nerVars, extractVars>>

UploadNext ==
    \E r \in Requests : RejectUpload(r) \/ OpenUpload(r) \/ ResumeUpload(r)

SpecUpload == UploadInit /\ [][UploadNext]_vars

(* C17: documents are processed independently: of requests handled        *)
(* concurrently by extract_info, two uploads of the same file name         *)
(* included, each PDF upload is answered with the record of its own        *)
(* document; none fails, reads another's bytes or loses its file.          *)
UploadsIndependent ==
    \A r \in Requests :
        requests[r].pc = "done" /\ EndsWithPdf(requests[r].filename) =>
            /\ requests[r].response.status = 200
            /\ requests[r].response.structured = r

\* the same, for requests whose paths differ from every other request's
UploadsOfDistinctPathsIndependent ==
    \A r \in Requests :
        (\A q \in Requests \ {r} :
            SecureFilename(requests[q].filename) # SecureFilename(requests[r].filename))
        /\ requests[r].pc = "done" /\ EndsWithPdf(requests[r].filename) =>
            /\ requests[r].response.status = 200
            /\ requests[r].response.structured = r
(* C23: the post-pass: when split_segments returns an empty order, no     *)
(* line of the returned body begins with "Held:" or "ORDER"; when the      *)
(* re-split fires, body is what stood before the first such line, order    *)
(* starts with that line and runs to the end, and body followed by order   *)
(* holds the lines the body had before the split, in the same order.       *)
NonBlank(z) == SelectSeq(z, LAMBDA x : x # 0)

MarkerLinesOf(z) == {k \in 1..Len(z) : z[k] # 0 /\ EmbeddedMarker(lines[z[k]])}

ResplitAtFirstMarker ==
    pc = "done" =>
        /\ segments.order = <<>> => MarkerLinesOf(segments.body) = {}
        /\ order_lines = <<>> /\ MarkerLinesOf(body_lines) # {} =>
               /\ MarkerLinesOf(segments.body) = {}
               /\ 1 \in MarkerLinesOf(segments.order)
               /\ NonBlank(segments.body) \o NonBlank(segments.order) = NonBlank(body_lines)

\* a re-split that leaves lines on both sides, two of them in the order
ResplitAtFirstMarkerWitness ==
    /\ pc = "done"
    /\ order_lines = <<>>
    /\ segments.body # <<>>
    /\ Len(NonBlank(segments.order)) = 2
    /\ 0 \in Range(body_lines)

-----------------------------------------------------------------------------
(* C22: blank lines are kept as single separators in body and in order: a  *)
(* run of blank input lines between two non-blank lines of the same zone   *)
(* leaves exactly one empty line between them in that zone, and the header *)
(* holds no empty line.                                                    *)
NextLineIn(z, i) == CHOOSE j \in (i + 1)..Len(z) : z[j] # 0 /\ \A k \in (i + 1)..(j - 1) : z[k] = 0

OneSeparatorIn(z) ==
    \A i \in 1..Len(z) :
        z[i] # 0 /\ (\E j \in (i + 1)..Len(z) : z[j] # 0) /\ z[NextLineIn(z, i)] > z[i] + 1
        => NextLineIn(z, i) = i + 2

BlankSeparatorsKept ==
    pc = "done" =>
        /\ Count(segments.header, 0) = 0
        /\ OneSeparatorIn(segments.body)
        /\ OneSeparatorIn(segments.order)

\* the same of header and body alone
BlankSeparatorsKeptInBody ==
    pc = "done" => Count(segments.header, 0) = 0 /\ OneSeparatorIn(segments.body)

-----------------------------------------------------------------------------

-----------------------------------------------------------------------------
(* C29: for an order zone with k numbered items, each on a line of its own *)
(* and each of 20 characters or more, extract_order_summary returns        *)
(* min(k, 10) directions, one for each item, in the order of the document. *)
NumberedItems ==
    SelectSeq([i \in 1..Len(doc_text.zone) |-> i], LAMBDA i : doc_text.zone[i] = "item")

OneDirectionPerItem ==
    "order_summary" \in DOMAIN extracted /\ NumberedItems # <<>>
        /\ (\A i \in 1..Len(doc_text.zone) : doc_text.zone[i] # "shortitem") =>
            extracted["order_summary"].directions =
                [k \in 1..(IF Len(NumberedItems) < 10 THEN Len(NumberedItems) ELSE 10) |->
                    [first |-> NumberedItems[k], last |-> NumberedItems[k]]]

\* the same for the zone that is one numbered item and nothing else
OneDirectionPerItemAlone == doc_text.zone = <<"item">> => OneDirectionPerItem
-----------------------------------------------------------------------------
(* C30: in every assembled record the value chosen as court is not one of  *)
(* lower_courts and the value chosen as date_of_judgment is not one of     *)
(* other_dates, and every merged court or date other than the chosen one   *)
(* is listed in lower_courts or other_dates.                               *)
ListedUnder(key) == IF key \in DOMAIN structured THEN Range(structured[key]) ELSE {}

ChosenApartFromOthers(chosen, others, merged) ==
    /\ chosen \in DOMAIN structured => structured[chosen] \notin ListedUnder(others)
    /\ \A k \in 1..Len(final_output[merged]) :
          (chosen \notin DOMAIN structured \/ final_output[merged][k] # structured[chosen])
              => final_output[merged][k] \in ListedUnder(others)

PrimaryApartFromOthers ==
    pc = "returned" =>
        /\ ChosenApartFromOthers("court", "lower_courts", "court")
        /\ ChosenApartFromOthers("date_of_judgment", "other_dates", "date")

\* the same for the records whose chosen court and date are the first of
\* the merged lists
PrimaryApartFromOthersFirst ==
    pc = "returned"
        /\ (final_output["court"] # <<>> => structured["court"] = final_output["court"][1])
        /\ (final_output["date"] # <<>> /\ "date_of_judgment" \in DOMAIN structured
               => structured["date_of_judgment"] = final_output["date"][1])
        /\ (final_output["date"] # <<>> => "date_of_judgment" \in DOMAIN structured)
        => PrimaryApartFromOthers

=============================================================================
